---- MODULE Spec2Model ----
(***************************************************************************)
(* GROMACS MD Runner: the stage resolver, the process orchestrator         *)
(* (run_md), the post-analysis launcher's validation (run_mmpbsa) and the   *)
(* Streamlit session that starts background workers (app.py).              *)
(*                                                                         *)
(* A behaviour of Spec is one use of the program on one working directory: *)
(* a caller of gromacs_runner.run_md or of gromacs_runner.run_mmpbsa, or a  *)
(* user of the Streamlit page (app.py).  The directory content, the        *)
(* installed executables and the caller's inputs are drawn in Init and by  *)
(* the actions' parameters.                                                *)
(***************************************************************************)
EXTENDS Integers, Sequences, FiniteSets, TLC

VARIABLES
    entry,        \* who uses the program: "app", or a caller of "run_md",
                  \* "run_mmpbsa", "stop_md", "update_mdp_nsteps" or of
                  \* run_md on a long output ("stream")
    files,        \* names of the files that exist in the working directory
    mdp,          \* content of each parameter file: [nsteps, dt], each
                  \* the set of the values of the first such line ({}: no line)
    transcript,   \* content of <prefix>.log: sequence of written entries
    installed,    \* executables that `which` resolves
    run,          \* the run_md call in progress: its locals and position
    obs,          \* what the call did: callbacks invoked, processes spawned
    outcome,      \* how the call ended: returned value or raised error
    session,      \* st.session_state fields of app.py
    workers,      \* background threads started by Run / Resume
    analysis,     \* the run_mmpbsa call in progress
    stop,         \* the stop_md call in progress and the process it targets
    update,       \* the update_mdp_nsteps call a caller made: its
                  \* arguments and how it ended
    disk,         \* content, character by character, of the text files
                  \* read or rewritten line by line
    param,        \* the update_mdp_parameter / read_mdp_parameter calls a
                  \* caller made: arguments, content before, value read
    lock,         \* _state_lock: the thread holding it, and where the
                  \* worker and the script are in their locked blocks
    pipe          \* the compute process's output pipe, byte by byte: what
                  \* the process wrote, and the lines run_md's loop passed on

vars == <<entry, files, mdp, transcript, installed, run, obs, outcome,
          session, workers, analysis, stop, update, disk, param, lock,
          pipe>>

----------------------------------------------------------------------------
(* Bounds of the model *)

\* output lines the compute process emits before its stream closes
MaxLines == 1
\* largest step number an output line reports, and largest nsteps / requested
\* step count drawn for a parameter file or a direct call
MaxStep == 2
\* values put on the log queue of a session observed on its own
MaxEmitted == 3
\* worker threads one session starts (Run and Resume clicks)
MaxWorkers == 2
\* 0.2 s polls that fit in the longest timeout given to stop_md
MaxPolls == 2
\* output lines of a compute process observed on its own
MaxStreamLines == 2
\* lines of a parameter file rewritten by update_mdp_parameter
MaxFileLines == 2
\* frames `gmx check` counts in a trajectory
MaxFrames == 4
\* processors of the machine, and largest worker count a caller asks for
MaxCpu == 3
\* groups of an index file
MaxGroups == 2
\* bytes a compute process writes to its output pipe
MaxPipe == 4
\* output lines of an analysis process, and the largest frame number in one
MaxAnalysisLines == 3
MaxCount == 2

----------------------------------------------------------------------------
(* Values *)

None == "None"
Stages == <<"setup", "equilibration", "production">>
StageSet == {Stages[i] : i \in 1..Len(Stages)}

Structs == {"step3_input.gro", "setup.gro", "equil.gro"}

\* nsteps of the built-in default documents (create_basic_mdp)
DefaultNstepsSetup == 5000
DefaultNstepsEquil == 50000
DefaultNstepsProd == 500000
\* total_steps when the parameter file has no nsteps line (run_md)
FallbackTotalSteps == 50000
\* timestep in femtoseconds when dt is absent (update_mdp_nsteps)
DefaultTimestepFs == 2
\* the text of a decimal number num/den, as a parameter file or an input
\* field holds it; NotANumber is a text float() rejects
DecimalText(n, d) == [num |-> n, den |-> d]
NotANumber == [num |-> 0, den |-> 0]
\* "dt = 0.002" of the documents create_basic_mdp writes
DefaultDt == DecimalText(2, 1000)
\* femtoseconds per nanosecond (ns_to_nsteps)
FsPerNs == 1000000

RECURSIVE SeqToSet(_)
SeqToSet(s) == IF s = <<>> THEN {} ELSE {Head(s)} \cup SeqToSet(Tail(s))

Last(s) == s[Len(s)]

----------------------------------------------------------------------------
(* gromacs_runner.check_gmx_command *)

GmxVariants == <<"gmx_mpi", "gmx_d", "gromacs">>

RECURSIVE FirstResolved(_, _)
FirstResolved(names, inst) ==
    IF names = <<>> THEN None
    ELSE IF Head(names) \in inst THEN Head(names)
    ELSE FirstResolved(Tail(names), inst)

\* variant: the probe reports an engine whatever is installed
check_gmx_command_always(inst) == "gmx"

check_gmx_command(inst) ==
    IF "gmx" \in inst THEN "gmx" ELSE FirstResolved(GmxVariants, inst)

----------------------------------------------------------------------------
(* gromacs_runner.validate_environment: "ok" or the error it raises *)

validate_environment(dir, stage) ==
    LET required == IF stage = "setup"
                    THEN {"topol.top", "step3_input.gro"}
                    ELSE {"topol.top"}
    IN  IF stage = "equilibration"
           /\ "setup.gro" \notin dir /\ "step3_input.gro" \notin dir
        THEN "MissingInput"
        ELSE IF stage = "production"
                /\ ~(\E f \in {"equil.gro", "setup.gro", "step3_input.gro"} :
                        f \in dir)
        THEN "MissingInput"
        ELSE IF \E f \in required : f \notin dir
        THEN "MissingInput"
        ELSE "ok"

----------------------------------------------------------------------------
(* Parameter-file resolution *)

\* gromacs_runner.find_mdp_file: stage_mdp_options
stage_mdp_options(stage) ==
    CASE stage = "setup" ->
            <<"step4_0_minimization.mdp", "step4.0_minimization.mdp",
              "minim.mdp", "em.mdp">>
      [] stage = "equilibration" ->
            <<"step4.1_equilibration.mdp", "step4_1_equilibration.mdp",
              "step4_equilibration.mdp", "equil.mdp", "nvt.mdp">>
      [] stage = "production" ->
            <<"step5_production.mdp", "step5.0_production.mdp",
              "md.mdp", "prod.mdp">>
      [] OTHER -> <<"step5_production.mdp">>

\* variant: get_mdp_file's table with the generic names ahead of the
\* CHARMM-GUI names
stage_options_reordered(stage) ==
    CASE stage = "setup" ->
            <<"minim.mdp", "em.mdp", "step4_0_minimization.mdp",
              "step4.0_minimization.mdp">>
      [] stage = "equilibration" ->
            <<"equil.mdp", "nvt.mdp", "step4.1_equilibration.mdp",
              "step4_1_equilibration.mdp", "step4_equilibration.mdp">>
      [] stage = "production" ->
            <<"md.mdp", "prod.mdp", "step5_production.mdp",
              "step5.0_production.mdp">>
      [] OTHER -> <<"step5_production.mdp">>

\* mdp_utils.get_mdp_file: stage_options
stage_options(stage) ==
    CASE stage = "setup" ->
            <<"step4_0_minimization.mdp", "step4.0_minimization.mdp",
              "minim.mdp", "em.mdp">>
      [] stage = "equilibration" ->
            <<"step4.1_equilibration.mdp", "step4_1_equilibration.mdp",
              "step4_equilibration.mdp", "equil.mdp", "nvt.mdp">>
      [] stage = "production" ->
            <<"step5_production.mdp", "step5.0_production.mdp",
              "md.mdp", "prod.mdp">>
      [] OTHER -> <<"step5_production.mdp">>

AllMdp == UNION {SeqToSet(stage_mdp_options(s)) : s \in StageSet}

\* the first name of the list that exists in the directory, None if none does
RECURSIVE FirstExisting(_, _)
FirstExisting(names, dir) ==
    IF names = <<>> THEN None
    ELSE IF Head(names) \in dir THEN Head(names)
    ELSE FirstExisting(Tail(names), dir)

\* gromacs_runner.create_basic_mdp: the file name and the document written
create_basic_mdp_name(stage) ==
    IF stage = "setup" THEN "minim.mdp"
    ELSE IF stage = "equilibration" THEN "equil.mdp"
    ELSE "md.mdp"

create_basic_mdp_content(stage) ==
    IF stage = "setup"
    THEN [nsteps |-> {DefaultNstepsSetup}, dt |-> {}]
    ELSE IF stage = "equilibration"
    THEN [nsteps |-> {DefaultNstepsEquil}, dt |-> {DefaultDt}]
    ELSE [nsteps |-> {DefaultNstepsProd}, dt |-> {DefaultDt}]

\* str.lower() on a stage name
lower(stage) ==
    CASE stage = "Setup" -> "setup"
      [] stage = "Equilibration" -> "equilibration"
      [] stage = "Production" -> "production"
      [] OTHER -> stage

\* find_mdp_file / get_mdp_file: [file, created]
find_mdp_file(dir, stage) ==
    LET f == FirstExisting(stage_mdp_options(stage), dir)
    IN  IF f # None THEN [file |-> f, created |-> FALSE]
        ELSE [file |-> create_basic_mdp_name(stage), created |-> TRUE]

get_mdp_file(dir, stage) ==
    LET f == FirstExisting(stage_options(lower(stage)), dir)
    IN  IF f # None THEN [file |-> f, created |-> FALSE]
        ELSE [file |-> create_basic_mdp_name(stage), created |-> TRUE]

\* the directory and the file contents after a resolution r = [file, created]
FilesAfterResolve(dir, r) == IF r.created THEN dir \cup {r.file} ELSE dir
MdpAfterResolve(m, r, stage) ==
    IF r.created THEN [m EXCEPT ![r.file] = create_basic_mdp_content(stage)]
    ELSE m

----------------------------------------------------------------------------
(* run_md: input structure and output prefix of a stage *)

\* variant: the setup output is preferred over the equilibration output
select_input_structure_setup_first(dir, stage) ==
    IF stage = "setup" THEN "step3_input.gro"
    ELSE IF "setup.gro" \in dir THEN "setup.gro"
    ELSE IF stage = "production" /\ "equil.gro" \in dir THEN "equil.gro"
    ELSE "step3_input.gro"

select_input_structure(dir, stage) ==
    IF stage = "setup" THEN "step3_input.gro"
    ELSE IF stage = "equilibration"
    THEN (IF "setup.gro" \in dir THEN "setup.gro" ELSE "step3_input.gro")
    ELSE (IF "equil.gro" \in dir THEN "equil.gro"
          ELSE IF "setup.gro" \in dir THEN "setup.gro"
          ELSE "step3_input.gro")

output_prefix_of(stage) ==
    IF stage = "setup" THEN "setup"
    ELSE IF stage = "equilibration" THEN "equil"
    ELSE "md"

Prefixes == {output_prefix_of(s) : s \in StageSet}
LogFile(prefix) == prefix \o ".log"
TprFile(prefix) == prefix \o ".tpr"
GroFile(prefix) == prefix \o ".gro"
LogFiles == {LogFile(p) : p \in Prefixes}

\* run_md: total_steps = int(nsteps_str) if nsteps_str else 50000
total_steps_of(content) ==
    IF content.nsteps = {} THEN FallbackTotalSteps
    ELSE CHOOSE n \in content.nsteps : TRUE

----------------------------------------------------------------------------
(* The call of run_md: Python binds keyword arguments to parameters *)

\* gromacs_runner.run_md: its parameters, and those without a default
RunMdParams == {"gromacs_dir", "stage", "threads", "use_gpu",
                "log_callback", "progress_callback", "pid_callback"}
RunMdRequired == {"gromacs_dir", "stage"}

\* app.run_job: the keyword arguments of its run_md(...) call
RunJobKwargs == {"gromacs_dir", "use_gpu", "threads", "total_steps", "resume",
                 "log_callback", "progress_callback", "pid_callback", "stage"}

\* a caller that passes exactly what run_md declares
ApiKwargs == RunMdParams

\* the call is accepted iff every keyword names a parameter and every
\* parameter without a default is given; otherwise Python raises TypeError
BindArgs(kwargs) == kwargs \subseteq RunMdParams /\ RunMdRequired \subseteq kwargs

----------------------------------------------------------------------------
(* Output lines of the compute process and run_md's progress extraction *)

StepLine(n) == [kind |-> "step", n |-> n]       \* "Step n"
PctLine(p) == [kind |-> "pct", n |-> p]         \* "... p%"
MarkerLine == [kind |-> "marker", n |-> 0]      \* "Fatal error ..."
PlainLine == [kind |-> "plain", n |-> 0]        \* any other text
NoLine == [kind |-> "none", n |-> 0]

PctValues == {50}
Lines == {StepLine(n) : n \in 0..MaxStep} \cup {PctLine(p) : p \in PctValues}
            \cup {MarkerLine, PlainLine}

\* the step run_md extracts from a line: {} when no pattern matches
extract_step(line, total_steps) ==
    IF line.kind = "step" THEN {line.n}
    ELSE IF line.kind = "pct" THEN {(line.n * total_steps) \div 100}
    ELSE {}

\* step counts a caller of run_md wants
ReqTotals == {1, MaxStep}

GromppCodes == {0, 1}
MdrunCodes == {0, 1, -15}

\* transcript entries
Entry(t, code, line) == [t |-> t, code |-> code, line |-> line]
Header == Entry("grompp_header", 0, NoLine)
GromppOut(rc) == Entry("grompp_output", rc, NoLine)
MdrunCmd == Entry("mdrun_command", 0, NoLine)
LineEntry(l) == Entry("line", 0, l)
Footer(rc) == Entry(IF rc = 0 THEN "footer_completed" ELSE "footer_failed", rc, NoLine)
ErrorEntry == Entry("error", 0, NoLine)

----------------------------------------------------------------------------
(* app.py: callbacks and the worker's completion handlers *)

\* values passed to log_callback: ordinary text, an output line of the
\* compute process, a warning about such a line, the control marker
\* "__SETUP_COMPLETED__" and the marker with surrounding whitespace
LogText == [kind |-> "text", line |-> NoLine]
LogLine(l) == [kind |-> "line", line |-> l]
LogWarning(l) == [kind |-> "warning", line |-> l]
Sentinel == [kind |-> "sentinel", line |-> NoLine]
SentinelPadded == [kind |-> "sentinel_padded", line |-> NoLine]

\* str.strip() on a logged value
strip(item) == IF item = SentinelPadded THEN Sentinel ELSE item

\* log_callback: st.session_state.log_queue.put(line), for each of `items`
log_callback(s, items) == [s EXCEPT !.log_queue = @ \o items]

\* progress_callback
progress_callback(s, step, total) ==
    IF total > 0 THEN [s EXCEPT !.progress = (step * 100) \div total] ELSE s

\* pid_callback
pid_callback(s, pid) == [s EXCEPT !.md_pid = pid]

\* run_job: after run_md returned `result`
job_completed(s, stage, result) ==
    LET unlock == stage = "setup" /\ result = 0
    IN  [s EXCEPT !.progress = 100, !.running = FALSE, !.paused = FALSE,
                  !.finished = TRUE, !.md_pid = 0,
                  !.setup_completed = IF unlock THEN TRUE ELSE @,
                  !.log_queue = IF unlock THEN @ \o <<Sentinel, LogText>>
                                ELSE @]

\* variant: the handler leaves the running flag set
job_failed_still_running(s, err) ==
    [s EXCEPT !.error = err, !.paused = FALSE, !.finished = FALSE,
              !.md_pid = 0, !.log_queue = Append(@, LogText)]

\* run_job: except Exception as e
job_failed(s, err) ==
    [s EXCEPT !.error = err, !.running = FALSE, !.paused = FALSE,
              !.finished = FALSE, !.md_pid = 0,
              !.log_queue = Append(@, LogText)]

----------------------------------------------------------------------------
(* run_md *)

\* a thread that has returned from run_job
DeadWorker == [state |-> "dead", stage |-> "setup", total_steps |-> 0,
               resume |-> FALSE, use_gpu |-> FALSE]

IdleRun == [pc |-> "idle", caller |-> 0, stage |-> "setup", req_total |-> 0,
            req_resume |-> FALSE, gmx_cmd |-> None, mdp_file |-> None,
            total_steps |-> 0, input_structure |-> None,
            output_prefix |-> None, tpr_at_start |-> FALSE,
            grompp_rc |-> {}, returncode |-> {}, last_step |-> 0,
            progress_reported |-> FALSE, nlines |-> 0, reported |-> <<>>]
NoObs == [onProgress |-> <<>>, onPid |-> <<>>, onLog |-> <<>>,
          spawned |-> <<>>]
NoOutcome == [kind |-> "none", err |-> None, code |-> 0]
Returned(rc) == [kind |-> "returned", err |-> None, code |-> rc]
Raised(err, rc) == [kind |-> "raised", err |-> err, code |-> rc]

\* log_callback(...) called by run_md for each of `items`: the caller's
\* callback sees them; a worker's callback puts them on the session's queue
Logged(o, items) == [o EXCEPT !.onLog = @ \o items]
Queued(s, caller, items) ==
    IF caller = 0 THEN s ELSE log_callback(s, items)

\* the call ends: the value or error reaches the caller; a worker's run_job
\* then runs its completion or its exception handler on the session `s`
EndCall(r, oc, s) ==
    /\ run' = [r EXCEPT !.pc = "done"]
    /\ outcome' = oc
    /\ IF r.caller = 0
       THEN /\ session' = s
            /\ workers' = workers
       ELSE /\ session' = IF oc.kind = "returned"
                          THEN job_completed(s, r.stage, oc.code)
                          ELSE job_failed(s, oc.err)
            /\ workers' = [workers EXCEPT ![r.caller] = DeadWorker]

\* the call goes on with locals r
Continue(r, s) ==
    /\ run' = r
    /\ session' = s
    /\ UNCHANGED <<outcome, workers>>

\* a call run_md(**kwargs) for `stage` by `caller`, wanting `tot` steps
EnterRun(caller, kwargs, stage, tot, resume) ==
    LET r == [IdleRun EXCEPT !.caller = caller, !.stage = stage,
                             !.req_total = tot, !.req_resume = resume,
                             !.tpr_at_start =
                                 TprFile(output_prefix_of(stage)) \in files]
    IN  /\ obs' = NoObs
        /\ IF BindArgs(kwargs)
           THEN /\ run' = [r EXCEPT !.pc = "validate"]
                /\ outcome' = NoOutcome
                /\ session' = session
                /\ workers' = IF caller = 0 THEN workers
                              ELSE [workers EXCEPT ![caller].state = "in_run_md"]
           ELSE EndCall(r, Raised("TypeError", 0), session)

\* a caller of the API calls run_md with the arguments it declares; `tot`
\* is the step count the caller wants, which run_md has no parameter for
DirectCall(stage, tot) ==
    /\ entry \in {"run_md", "stream", "rerun"}
    /\ run.pc = "idle"
    /\ analysis.pc = "idle"
    /\ EnterRun(0, ApiKwargs, stage, tot, FALSE)
    /\ UNCHANGED <<pipe, disk, param, lock, update, stop, entry, files, mdp, transcript, installed, analysis>>

\* the caller calls run_md again for the same stage, in the same directory,
\* once its previous call has ended
Rerun(tot) ==
    /\ entry = "rerun"
    /\ run.pc = "done"
    /\ EnterRun(0, ApiKwargs, run.stage, tot, FALSE)
    /\ UNCHANGED <<pipe, disk, param, lock, update, stop, entry, files, mdp,
                   transcript, installed, analysis>>

\* validate_environment(gromacs_dir, stage); its error passes through the
\* handler, which logs it
Validate ==
    /\ run.pc = "validate"
    /\ IF validate_environment(files, run.stage) = "ok"
       THEN /\ Continue([run EXCEPT !.pc = "check_gmx"], session)
            /\ obs' = obs
       ELSE /\ EndCall(run, Raised("MissingInput", 0),
                       Queued(session, run.caller, <<LogText>>))
            /\ obs' = Logged(obs, <<LogText>>)
    /\ UNCHANGED <<pipe, disk, param, lock, update, stop, entry, files, mdp, transcript, installed, analysis>>

\* gmx_cmd = check_gmx_command()
CheckGmx ==
    /\ run.pc = "check_gmx"
    /\ LET cmd == check_gmx_command(installed)
       IN  IF cmd # None
           THEN /\ Continue([run EXCEPT !.pc = "resolve", !.gmx_cmd = cmd],
                            session)
                /\ obs' = obs
           ELSE /\ EndCall(run, Raised("EngineNotFound", 0),
                           Queued(session, run.caller, <<LogText>>))
                /\ obs' = Logged(obs, <<LogText>>)
    /\ UNCHANGED <<pipe, disk, param, lock, update, stop, entry, files, mdp, transcript, installed, analysis>>

\* find_mdp_file, nsteps, input structure, output prefix; the run's header
\* goes to the log stream
Resolve ==
    /\ run.pc = "resolve"
    /\ LET r == find_mdp_file(files, run.stage)
           m == MdpAfterResolve(mdp, r, run.stage)
       IN  /\ files' = FilesAfterResolve(files, r)
           /\ mdp' = m
           /\ Continue([run EXCEPT
                 !.pc = "grompp_start",
                 !.mdp_file = r.file,
                 !.total_steps = total_steps_of(m[r.file]),
                 !.input_structure = select_input_structure(files, run.stage),
                 !.output_prefix = output_prefix_of(run.stage)],
                 Queued(session, run.caller, <<LogText>>))
           /\ obs' = Logged(obs, <<LogText>>)
    /\ UNCHANGED <<pipe, disk, param, lock, update, stop, entry, transcript, installed, analysis>>

\* open(log_file, "w") with the header, then subprocess.run(grompp_cmd)
StartGrompp ==
    /\ run.pc = "grompp_start"
    /\ transcript' = [transcript EXCEPT
                          ![LogFile(run.output_prefix)] = <<Header>>]
    /\ files' = files \cup {LogFile(run.output_prefix)}
    /\ obs' = [Logged(obs, <<LogText>>) EXCEPT
                  !.spawned = Append(@, "grompp")]
    /\ Continue([run EXCEPT !.pc = "grompp"],
                Queued(session, run.caller, <<LogText>>))
    /\ UNCHANGED <<pipe, disk, param, lock, update, stop, entry, mdp, installed, analysis>>

\* variant: the preprocessing exit code is ignored
grompp_never_failed(rc) == FALSE

\* if grompp_result.returncode != 0: raise
grompp_failed(rc) == rc # 0

\* what run_md logs once grompp has exited with 0: "Preprocessing
\* completed", then the marker, whatever the stage
after_grompp_log(stage) == <<LogText, Sentinel>>

\* the preprocessing command exits with rc
GromppExit(rc) ==
    /\ run.pc = "grompp"
    /\ LET log == LogFile(run.output_prefix)
           out == Append(transcript[log], GromppOut(rc))
       IN  IF grompp_failed(rc)
           THEN /\ transcript' = [transcript EXCEPT
                                     ![log] = Append(out, ErrorEntry)]
                /\ files' = files
                /\ obs' = Logged(obs, <<LogText, LogText>>)
                /\ EndCall([run EXCEPT !.grompp_rc = {rc}],
                           Raised("Preprocess", rc),
                           Queued(session, run.caller, <<LogText, LogText>>))
           ELSE /\ transcript' = [transcript EXCEPT ![log] = out]
                /\ files' = IF rc = 0
                             THEN files \cup {TprFile(run.output_prefix)}
                             ELSE files
                /\ obs' = Logged(obs, after_grompp_log(run.stage))
                /\ Continue([run EXCEPT !.pc = "mdrun_start",
                                        !.grompp_rc = {rc}],
                            Queued(session, run.caller,
                                   after_grompp_log(run.stage)))
    /\ UNCHANGED <<pipe, disk, param, lock, update, stop, entry, mdp, installed, analysis>>

\* subprocess.run(..., timeout=300) raises TimeoutExpired
GromppTimeout ==
    /\ run.pc = "grompp"
    /\ obs' = Logged(obs, <<LogText>>)
    /\ EndCall(run, Raised("Timeout", 0),
               Queued(session, run.caller, <<LogText>>))
    /\ UNCHANGED <<pipe, disk, param, lock, update, stop, entry, files, mdp, transcript, installed, analysis>>

\* the compute command is logged and spawned; pid_callback(process.pid)
StartMdrun ==
    /\ run.pc = "mdrun_start"
    /\ LET log == LogFile(run.output_prefix)
           pid == Len(obs.spawned) + 1
           s == Queued(session, run.caller, <<LogText>>)
       IN  /\ transcript' = [transcript EXCEPT ![log] = Append(@, MdrunCmd)]
           /\ files' = files \cup {log}
           /\ obs' = [Logged(obs, <<LogText>>) EXCEPT
                         !.spawned = Append(@, "mdrun"),
                         !.onPid = Append(@, pid)]
           /\ Continue([run EXCEPT !.pc = "stream", !.last_step = 0,
                                   !.progress_reported = FALSE,
                                   !.nlines = 0, !.reported = <<>>],
                       IF run.caller = 0 THEN s ELSE pid_callback(s, pid))
    /\ UNCHANGED <<pipe, disk, param, lock, update, stop, entry, mdp, installed, analysis>>

\* variant: an error pattern adds nothing to the log
line_log_without_warning(line) == <<LogLine(line)>>

\* what the loop logs for a line: the line, and a warning when the line
\* matches an error pattern
line_log(line) ==
    IF line.kind = "marker" THEN <<LogLine(line), LogWarning(line)>>
    ELSE <<LogLine(line)>>

\* lines the stream of this behaviour may carry
LineBound == IF entry = "stream" THEN MaxStreamLines ELSE MaxLines

\* one iteration of the streaming loop on `line`; `elapsed` tells whether
\* more than 0.5 s passed since the previous progress callback
ReadLine(line, elapsed) ==
    /\ run.pc = "stream"
    /\ run.nlines < LineBound
    /\ LET log == LogFile(run.output_prefix)
           steps == extract_step(line, run.total_steps)
           fire == /\ steps # {}
                   /\ (elapsed \/ ~run.progress_reported)
                   /\ \A n \in steps : n # run.last_step
           s == Queued(session, run.caller, line_log(line))
       IN  /\ transcript' = [transcript EXCEPT
                                ![log] = Append(@, LineEntry(line))]
           /\ IF fire
              THEN LET n == CHOOSE n \in steps : TRUE
                   IN  /\ obs' = [Logged(obs, line_log(line)) EXCEPT
                                     !.onProgress =
                                         Append(@, <<n, run.total_steps>>)]
                       /\ Continue([run EXCEPT !.nlines = @ + 1,
                                       !.last_step = n,
                                       !.progress_reported = TRUE,
                                       !.reported = Append(@, {n})],
                                   IF run.caller = 0 THEN s
                                   ELSE progress_callback(s, n,
                                                          run.total_steps))
              ELSE /\ obs' = Logged(obs, line_log(line))
                   /\ Continue([run EXCEPT !.nlines = @ + 1,
                                           !.reported = Append(@, {})], s)
    /\ UNCHANGED <<pipe, disk, param, lock, update, stop, entry, files, mdp, installed, analysis>>

\* progress_callback(total_steps, total_steps) on exit code 0
final_progress(r) == <<r.total_steps, r.total_steps>>

\* variant: the footer is written on success only
close_transcript_success_only(t, rc) ==
    IF rc = 0 THEN Append(t, Footer(rc)) ELSE Append(t, ErrorEntry)

\* the footer is written; on a non-zero exit code the raise that follows
\* it reaches the handler, which appends the error entry
close_transcript(t, rc) ==
    IF rc = 0 THEN Append(t, Footer(rc))
    ELSE Append(Append(t, Footer(rc)), ErrorEntry)

\* the stream closes and process.wait() gives rc: final progress, final
\* message, footer, then return or raise (the handler logs the error)
StreamClose(rc) ==
    /\ run.pc = "stream"
    /\ LET log == LogFile(run.output_prefix)
           r == [run EXCEPT !.returncode = {rc}]
           items == IF rc = 0 THEN <<LogText>> ELSE <<LogText, LogText>>
           s == Queued(session, run.caller, items)
       IN  /\ transcript' = [transcript EXCEPT
                                ![log] = close_transcript(@, rc)]
           /\ IF rc = 0
              THEN /\ obs' = [Logged(obs, items) EXCEPT !.onProgress =
                                 Append(@, final_progress(run))]
                   /\ files' = files \cup {GroFile(run.output_prefix)}
                   /\ EndCall(r, Returned(rc),
                              IF run.caller = 0 THEN s
                              ELSE progress_callback(s, run.total_steps,
                                                     run.total_steps))
              ELSE /\ obs' = Logged(obs, items)
                   /\ files' = files
                   /\ EndCall(r, Raised("EngineRuntime", rc), s)
    /\ UNCHANGED <<pipe, disk, param, lock, update, stop, entry, mdp, installed, analysis>>

----------------------------------------------------------------------------
(* gromacs_runner.stop_md(pid, timeout) *)

\* a pid argument: {} is None, {n} is the integer n
Pids == {{}, {0}, {1}, {2}}
\* `not pid`
falsy(pid) == pid = {} \/ pid = {0}

\* what os.kill(pid, sig) meets: a process of the caller ("alive"), no
\* process ("gone": ProcessLookupError), a process of another user
\* ("denied": PermissionError)
ProcStates == {"alive", "gone", "denied"}

IdleStop == [pc |-> "idle", pid |-> {}, timeout |-> 0, proc |-> "gone",
             gone_at_call |-> FALSE, polls |-> 0, signals |-> <<>>,
             result |-> FALSE]

\* `if not pid: return False`
falsy_pid_result == FALSE

\* variant: a missing process is reported as a failure
already_gone_result_false == FALSE

\* `except ProcessLookupError: return True`
already_gone_result == TRUE

\* `return False  # Still alive somehow`
still_alive_result == FALSE

\* variant: the loop gives up before the timeout
poll_again_never(polls, timeout) == FALSE

\* `while time.time() - start_time < timeout`, in 0.2 s polls
poll_again(polls, timeout) == polls < timeout

StopReturn(value) ==
    stop' = [stop EXCEPT !.pc = "done", !.result = value]

\* stop_md(pid, timeout) is called
StopCall(pid, timeout) ==
    /\ entry = "stop_md"
    /\ stop.pc = "idle"
    /\ LET c == [stop EXCEPT !.pid = pid, !.timeout = timeout,
                             !.gone_at_call = (stop.proc = "gone")]
       IN  stop' = IF falsy(pid)
                   THEN [c EXCEPT !.pc = "done", !.result = falsy_pid_result]
                   ELSE [c EXCEPT !.pc = "probe"]
    /\ UNCHANGED <<pipe, disk, param, lock, update, entry, files, mdp, transcript, installed, run, obs,
                   outcome, session, workers, analysis>>

\* the target process exits while stop_md runs (by itself or on a signal)
ProcExits ==
    /\ stop.pc \in {"probe", "term", "poll", "verify"}
    /\ stop.proc # "gone"
    /\ stop' = [stop EXCEPT !.proc = "gone"]
    /\ UNCHANGED <<pipe, disk, param, lock, update, entry, files, mdp, transcript, installed, run, obs,
                   outcome, session, workers, analysis>>

\* os.kill(pid, 0): "Check if process exists first"
StopProbe ==
    /\ stop.pc = "probe"
    /\ IF stop.proc = "gone" THEN StopReturn(already_gone_result)
       ELSE IF stop.proc = "denied" THEN StopReturn(FALSE)
       ELSE stop' = [stop EXCEPT !.pc = "term"]
    /\ UNCHANGED <<pipe, disk, param, lock, update, entry, files, mdp, transcript, installed, run, obs,
                   outcome, session, workers, analysis>>

\* os.kill(pid, signal.SIGTERM)
StopTerm ==
    /\ stop.pc = "term"
    /\ IF stop.proc = "gone" THEN StopReturn(already_gone_result)
       ELSE IF stop.proc = "denied" THEN StopReturn(FALSE)
       ELSE stop' = [stop EXCEPT !.pc = "poll", !.polls = 0,
                                 !.signals = Append(@, "SIGTERM")]
    /\ UNCHANGED <<pipe, disk, param, lock, update, entry, files, mdp, transcript, installed, run, obs,
                   outcome, session, workers, analysis>>

\* one pass of the wait loop: os.kill(pid, 0), then time.sleep(0.2)
StopPoll ==
    /\ stop.pc = "poll"
    /\ poll_again(stop.polls, stop.timeout)
    /\ IF stop.proc = "gone" THEN StopReturn(TRUE)
       ELSE IF stop.proc = "denied" THEN StopReturn(FALSE)
       ELSE stop' = [stop EXCEPT !.polls = @ + 1]
    /\ UNCHANGED <<pipe, disk, param, lock, update, entry, files, mdp, transcript, installed, run, obs,
                   outcome, session, workers, analysis>>

\* the loop has ended: os.kill(pid, signal.SIGKILL), then time.sleep(0.5)
StopKill ==
    /\ stop.pc = "poll"
    /\ ~poll_again(stop.polls, stop.timeout)
    /\ IF stop.proc = "gone" THEN StopReturn(TRUE)
       ELSE IF stop.proc = "denied" THEN StopReturn(FALSE)
       ELSE stop' = [stop EXCEPT !.pc = "verify",
                                 !.signals = Append(@, "SIGKILL")]
    /\ UNCHANGED <<pipe, disk, param, lock, update, entry, files, mdp, transcript, installed, run, obs,
                   outcome, session, workers, analysis>>

\* os.kill(pid, 0): "Verify it's dead"
StopVerify ==
    /\ stop.pc = "verify"
    /\ IF stop.proc = "gone" THEN StopReturn(TRUE)
       ELSE IF stop.proc = "denied" THEN StopReturn(FALSE)
       ELSE StopReturn(still_alive_result)
    /\ UNCHANGED <<pipe, disk, param, lock, update, entry, files, mdp, transcript, installed, run, obs,
                   outcome, session, workers, analysis>>

StopStep == StopProbe \/ StopTerm \/ StopPoll \/ StopKill \/ StopVerify

----------------------------------------------------------------------------
(* Python float: IEEE-754 binary64, positive finite values.  A float is
   [m, top]: m the 53 binary digits of its significand, most significant
   first (m[1] = 1), and top the binary exponent of m[1].  Every operation
   rounds its exact result to the nearest float, ties to even.  Products
   are carried over groups of 8 digits and quotients over groups of 16, so
   that no intermediate value leaves the 32-bit range. *)
Precision == 53

Zeros(n) == [i \in 1..n |-> 0]
PadLeft(b, n) == Zeros(n - Len(b)) \o b
PadRight(b, n) == b \o Zeros(n - Len(b))

\* the n binary digits of v, most significant first
BitsOfInt(v, n) == [i \in 1..n |-> (v \div 2 ^ (n - i)) % 2]

\* digits without their leading zeros
StripZeros(b) ==
    IF \A i \in 1..Len(b) : b[i] = 0 THEN <<>>
    ELSE LET f == CHOOSE i \in 1..Len(b) :
                      b[i] = 1 /\ \A k \in 1..(i - 1) : b[k] = 0
         IN  SubSeq(b, f, Len(b))

\* the binary digits of an int n > 0
BitsOf(n) == StripZeros(BitsOfInt(n, 31))

\* the value of the 4 digits of b after the first o, and of its j-th group
\* of 8 and of 16 digits
Nibble(b, o) == 8 * b[o + 1] + 4 * b[o + 2] + 2 * b[o + 3] + b[o + 4]
Byte(b, j) == 16 * Nibble(b, 8 * (j - 1)) + Nibble(b, 8 * (j - 1) + 4)
Word(b, j) == 256 * Byte(b, 2 * j - 1) + Byte(b, 2 * j)

\* the int with binary digits b
IntOf(b) ==
    LET p == PadLeft(b, 32)
    IN  65536 * Word(p, 1) + Word(p, 2)

\* b + 1 on digits that are not all 1
Increment(b) ==
    LET j == CHOOSE i \in 1..Len(b) :
                 b[i] = 0 /\ \A k \in (i + 1)..Len(b) : b[k] = 1
    IN  [i \in 1..Len(b) |-> IF i < j THEN b[i] ELSE IF i = j THEN 1 ELSE 0]

\* the float nearest to the number with digits b (b[1] = 1, of exponent
\* `top`), which a non-zero tail follows when `sticky`
RoundToFloat(b, top, sticky) ==
    LET padded == IF Len(b) < Precision + 1
                  THEN PadRight(b, Precision + 1) ELSE b
        m == SubSeq(padded, 1, Precision)
        guard == padded[Precision + 1]
        rest == sticky \/ \E i \in (Precision + 2)..Len(padded) : padded[i] = 1
        up == guard = 1 /\ (rest \/ m[Precision] = 1)
    IN  IF ~up THEN [m |-> m, top |-> top]
        ELSE IF \A i \in 1..Precision : m[i] = 1
        THEN [m |-> <<1>> \o Zeros(Precision - 1), top |-> top + 1]
        ELSE [m |-> Increment(m), top |-> top]

\* the quotient by o < 2^15 of the number with digits b (b[1] = 1, of
\* exponent `top`), by long division over 80 digits: the quotient's digits
\* from its first 1, their exponent, and whether a non-zero tail follows
Quotient(b, o, top) ==
    LET d == PadRight(b, 80)
        v1 == Word(d, 1)
        v2 == 65536 * (v1 % o) + Word(d, 2)
        v3 == 65536 * (v2 % o) + Word(d, 3)
        v4 == 65536 * (v3 % o) + Word(d, 4)
        v5 == 65536 * (v4 % o) + Word(d, 5)
        bits == StripZeros(BitsOfInt(v1 \div o, 16) \o BitsOfInt(v2 \div o, 16)
                           \o BitsOfInt(v3 \div o, 16)
                           \o BitsOfInt(v4 \div o, 16)
                           \o BitsOfInt(v5 \div o, 16))
    IN  [bits |-> bits, top |-> top - (80 - Len(bits)), sticky |-> v5 % o # 0]

\* float(text) for the decimal text of n/d (n, d > 0)
FloatOf(n, d) ==
    LET whole == BitsOf(n)
        q == Quotient(whole, d, Len(whole) - 1)
    IN  RoundToFloat(q.bits, q.top, q.sticky)

\* x * k for a float x and an int 0 < k < 2^22 (k converts to a float
\* exactly)
FloatTimesInt(x, k) ==
    LET b == PadLeft(x.m, 56)
        t7 == k * Byte(b, 7)
        t6 == k * Byte(b, 6) + t7 \div 256
        t5 == k * Byte(b, 5) + t6 \div 256
        t4 == k * Byte(b, 4) + t5 \div 256
        t3 == k * Byte(b, 3) + t4 \div 256
        t2 == k * Byte(b, 2) + t3 \div 256
        t1 == k * Byte(b, 1) + t2 \div 256
        p == StripZeros(BitsOfInt(t1, 31) \o BitsOfInt(t2 % 256, 8)
                        \o BitsOfInt(t3 % 256, 8) \o BitsOfInt(t4 % 256, 8)
                        \o BitsOfInt(t5 % 256, 8) \o BitsOfInt(t6 % 256, 8)
                        \o BitsOfInt(t7 % 256, 8))
    IN  RoundToFloat(p, x.top - (Precision - 1) + Len(p) - 1, FALSE)

\* x / y for floats; y is o * 2^j with o odd, o < 2^15
FloatDiv(x, y) ==
    LET last == CHOOSE i \in 1..Precision :
                    y.m[i] = 1 /\ \A k \in (i + 1)..Precision : y.m[k] = 0
        o == IntOf(SubSeq(y.m, 1, last))
        j == y.top - (last - 1)
        q == Quotient(x.m, o, x.top - j)
    IN  RoundToFloat(q.bits, q.top, q.sticky)

\* int(x): the digits above the binary point
FloatToInt(x) ==
    IF x.top < 0 THEN 0 ELSE IntOf(SubSeq(x.m, 1, x.top + 1))

----------------------------------------------------------------------------
(* mdp_utils: step count of a duration *)

\* float(text) of a decimal text; text that float() rejects raises ValueError
parses(text) == text.den # 0
float(text) == FloatOf(text.num, text.den)

\* ns_to_nsteps(ns, timestep_fs): int((ns * 1_000_000) / timestep_fs)
ns_to_nsteps(ns, timestep_fs) ==
    FloatToInt(FloatDiv(FloatTimesInt(ns, FsPerNs), timestep_fs))

\* update_mdp_nsteps: the timestep in fs, dt (ps) of the file times 1000,
\* or 2 when the file has no dt or float() rejects its text
timestep_of(content) ==
    IF content.dt = {} THEN FloatOf(DefaultTimestepFs, 1)
    ELSE LET dt_str == CHOOSE t \in content.dt : TRUE
         IN  IF parses(dt_str) THEN FloatTimesInt(float(dt_str), 1000)
             ELSE FloatOf(DefaultTimestepFs, 1)

\* simulated durations (ns) the user enters
NsChoices == {DecimalText(1, 1)}
\* durations a caller of update_mdp_nsteps asks for: 0.5, 2.01 and 10 ns
StepsNs == {DecimalText(50, 100), DecimalText(201, 100),
            DecimalText(1000, 100)}
\* the dt line of a parameter file: none, no number, 0.002, 0.001, 0.004
StepsDt == {{}, {NotANumber}, {DefaultDt}, {DecimalText(1, 1000)},
            {DecimalText(4, 1000)}}

\* update_mdp_nsteps: nsteps = ns_to_nsteps(ns, timestep_fs), for each
\* duration and each dt line of the model
nsteps_of ==
    [ns \in NsChoices \cup StepsNs, dt \in StepsDt |->
        ns_to_nsteps(float(ns), timestep_of([nsteps |-> {}, dt |-> dt]))]

BackupFile(f) == f \o ".backup"

\* no update_mdp_nsteps call made yet
IdleUpdate ==
    [pc |-> "idle", mdp_path |-> "md.mdp", ns |-> DecimalText(1, 1),
     returned |-> {}, raised |-> FALSE]

\* update_mdp_nsteps(mdp_path, ns) by a caller, ns the float of the decimal
\* text `ns`: FileNotFoundError when the file is missing; else a backup is
\* made and the nsteps line is rewritten, or appended when there is none
UpdateMdpNsteps(mdp_path, ns) ==
    /\ entry = "update_mdp_nsteps"
    /\ IF mdp_path \notin files
       THEN /\ update' = [pc |-> "done", mdp_path |-> mdp_path, ns |-> ns,
                          returned |-> {}, raised |-> TRUE]
            /\ UNCHANGED <<files, mdp>>
       ELSE LET nsteps == nsteps_of[ns, mdp[mdp_path].dt]
            IN  /\ files' = files \cup {BackupFile(mdp_path)}
                /\ mdp' = [mdp EXCEPT ![mdp_path].nsteps = {nsteps}]
                /\ update' = [pc |-> "done", mdp_path |-> mdp_path,
                              ns |-> ns, returned |-> {nsteps},
                              raised |-> FALSE]
    /\ UNCHANGED <<pipe, disk, param, lock, stop, entry, transcript, installed, run, obs, outcome,
                   session, workers, analysis>>

----------------------------------------------------------------------------
(* mdp_utils.py: parameter files read and rewritten line by line.  A text  *)
(* is the sequence of its characters; a file holds the bytes on disk.      *)

Whitespace == {" ", "\t", "\n", "\r"}

\* number of whitespace characters s starts with / ends with
LeadingWs(s) ==
    CHOOSE k \in 0..Len(s) :
        /\ \A i \in 1..k : s[i] \in Whitespace
        /\ (k = Len(s) \/ s[k + 1] \notin Whitespace)
TrailingWs(s) ==
    CHOOSE k \in 0..Len(s) :
        /\ \A i \in (Len(s) - k + 1)..Len(s) : s[i] \in Whitespace
        /\ (k = Len(s) \/ s[Len(s) - k] \notin Whitespace)

\* str.lstrip() and str.strip()
lstripped(s) == SubSeq(s, LeadingWs(s) + 1, Len(s))
stripped(s) ==
    IF LeadingWs(s) = Len(s) THEN <<>>
    ELSE SubSeq(s, LeadingWs(s) + 1, Len(s) - TrailingWs(s))

\* the letters of the model's texts, lowered as re.IGNORECASE and
\* str.lower() compare them
LowerChar(c) ==
    CASE c = "D" -> "d" [] c = "T" -> "t" [] c = "P" -> "p" [] c = "L" -> "l"
      [] c = "I" -> "i" [] c = "G" -> "g" [] c = "H" -> "h" [] c = "S" -> "s"
      [] c = "O" -> "o" [] c = "N" -> "n" [] c = "A" -> "a" [] c = "U" -> "u"
      [] c = "K" -> "k" [] c = "C" -> "c" [] c = "R" -> "r" [] c = "E" -> "e"
      [] OTHER -> c
Lowered(s) == [i \in 1..Len(s) |-> LowerChar(s[i])]

\* the k-th smallest member of a set of positions
Nth(P, k) == CHOOSE p \in P : Cardinality({q \in P : q <= p}) = k

\* open(path, 'r'): universal newlines turn "\r\n" and "\r" into "\n"
decode(bytes) ==
    LET keep == {i \in 1..Len(bytes) :
                    ~(/\ bytes[i] = "\r"
                      /\ i < Len(bytes)
                      /\ bytes[i + 1] = "\n")}
    IN  [k \in 1..Cardinality(keep) |->
            LET c == bytes[Nth(keep, k)]
            IN  IF c = "\r" THEN "\n" ELSE c]

\* `for line in f`: the lines of a text, each with its "\n" when it has one
readlines(t) ==
    LET ends == {i \in 1..Len(t) : t[i] = "\n" \/ i = Len(t)}
    IN  [k \in 1..Cardinality(ends) |->
            SubSeq(t, IF k = 1 THEN 1 ELSE Nth(ends, k - 1) + 1,
                   Nth(ends, k))]

\* f.writelines(new_lines)
RECURSIVE writelines(_)
writelines(ls) ==
    IF ls = <<>> THEN <<>> ELSE Head(ls) \o writelines(Tail(ls))

\* "Skip empty lines and comments"
is_comment_or_blank(line) ==
    LET s == stripped(line)
    IN  s = <<>> \/ s[1] = ";" \/ s[1] = "#"

\* position of the "=" that ^\s*name\s*= matches in `line`, ignoring case;
\* 0 when the line does not match
assign_at(line, name) ==
    LET a == LeadingWs(line)
        b == a + Len(name)
    IN  IF /\ b <= Len(line)
           /\ Lowered(SubSeq(line, a + 1, b)) = Lowered(name)
        THEN LET q == b + LeadingWs(SubSeq(line, b + 1, Len(line))) + 1
             IN  IF q <= Len(line) /\ line[q] = "=" THEN q ELSE 0
        ELSE 0

\* where `$` matches: the end of the line, before its final "\n"
LineEnd(line) ==
    IF line # <<>> /\ line[Len(line)] = "\n" THEN Len(line) - 1
    ELSE Len(line)

\* re.search(r';.*$', line): the inline comment, "" when there is none
inline_comment(line) ==
    LET semis == {i \in 1..LineEnd(line) : line[i] = ";"}
    IN  IF semis = {} THEN <<>>
        ELSE SubSeq(line, Nth(semis, 1), LineEnd(line))

\* variant: a matching line is kept as it is
rewritten_as_it_was(line, name, value) == line

\* f"{indent}{parameter_name} = {parameter_value}{' ' + comment}\n"
rewritten(line, name, value) ==
    SubSeq(line, 1, LeadingWs(line)) \o name \o <<" ", "=", " ">> \o value
        \o (IF inline_comment(line) = <<>> THEN <<>>
            ELSE <<" ">> \o inline_comment(line))
        \o <<"\n">>

\* "\n; Added by GROMACS MD Runner\n"
AddedComment ==
    <<"\n", ";", " ", "A", "d", "d", "e", "d", " ", "b", "y", " ",
      "G", "R", "O", "M", "A", "C", "S", " ", "M", "D", " ",
      "R", "u", "n", "n", "e", "r", "\n">>

\* is `line` one the update rewrites
is_target(line, name) ==
    ~is_comment_or_blank(line) /\ assign_at(line, name) # 0

\* variant: the lines that are kept are written stripped
new_lines_stripped(lines, name, value) ==
    [i \in 1..Len(lines) |->
        IF is_target(lines[i], name)
        THEN rewritten(lines[i], name, value)
        ELSE stripped(lines[i]) \o <<"\n">>]

\* new_lines of update_mdp_parameter: every assignment of the name is
\* rewritten; when there is none, the comment and one assignment are added
new_lines(lines, name, value) ==
    LET kept == [i \in 1..Len(lines) |->
                    IF is_target(lines[i], name)
                    THEN rewritten(lines[i], name, value)
                    ELSE lines[i]]
    IN  IF \E i \in 1..Len(lines) : is_target(lines[i], name)
        THEN kept
        ELSE kept \o <<AddedComment,
                       name \o <<" ", "=", " ">> \o value \o <<"\n">>>>

\* the bytes update_mdp_parameter leaves in a file that held `bytes`
updated_text(bytes, name, value) ==
    writelines(new_lines(readlines(decode(bytes)), name, value))

\* group(1) of ^\s*name\s*=\s*(.+?)(?:\s*;.*)?$ on `line`, stripped; {}
\* when the line does not match.  \s* after "=" is greedy and (.+?) lazy:
\* the group starts at the first character that is not whitespace (at the
\* last character before the end when all are) and stops at the first
\* position followed by optional whitespace and ";", or at the end
matched_value(line, name) ==
    LET q == assign_at(line, name)
        e == LineEnd(line)
    IN  IF q = 0 \/ q >= e THEN {}
        ELSE LET w == LeadingWs(SubSeq(line, q + 1, e))
                 s == IF q + w >= e THEN e ELSE q + w + 1
                 stops == {j \in s..e :
                             \/ j = e
                             \/ \E p \in (j + 1)..e :
                                   /\ line[p] = ";"
                                   /\ \A i \in (j + 1)..(p - 1) :
                                         line[i] \in Whitespace}
             IN  {stripped(SubSeq(line, s, Nth(stops, 1)))}

\* read_mdp_parameter on a file holding `bytes`: the value of the first
\* line that matches, {} (None) when no line does
read_mdp_parameter(bytes, name) ==
    LET lines == readlines(decode(bytes))
        hits == {i \in 1..Len(lines) :
                    /\ ~is_comment_or_blank(lines[i])
                    /\ matched_value(lines[i], name) # {}}
    IN  IF hits = {} THEN {} ELSE matched_value(lines[Nth(hits, 1)], name)

\* the parameter file a caller updates
ParamFile == "custom.mdp"
TextFiles == {ParamFile, BackupFile(ParamFile), "index.ndx"}
NoText == [f \in TextFiles |-> <<>>]

\* no update_mdp_parameter call made yet
IdleParam ==
    [pc |-> "idle", name |-> <<>>, value |-> <<>>, before |-> <<>>,
     raised |-> FALSE, read |-> {}, backup |-> TRUE, copied |-> FALSE]

\* variant: the copy is taken once the file has been rewritten
copy2_after_write(before, after) == after

\* shutil.copy2(mdp_path, backup_path), called before the file is opened:
\* the bytes of the backup
copy2(before, after) == before

\* update_mdp_parameter(ParamFile, name, value, backup) by a caller:
\* FileNotFoundError when the file is missing; else, when backup is set,
\* the file is copied (`copies` tells whether shutil.copy2 succeeds: its
\* error is printed and dropped), and the file is rewritten
UpdateMdpParameter(name, value, backup, copies) ==
    /\ entry \in {"update_mdp_parameter", "backup"}
    /\ param.pc = "idle"
    /\ backup \/ copies
    /\ IF ParamFile \notin files
       THEN /\ param' = [param EXCEPT !.pc = "done", !.name = name,
                                      !.value = value, !.raised = TRUE,
                                      !.backup = backup]
            /\ UNCHANGED <<files, disk>>
       ELSE LET after == updated_text(disk[ParamFile], name, value)
                copied == backup /\ copies
            IN  /\ files' = IF copied
                            THEN files \cup {BackupFile(ParamFile)}
                            ELSE files
                /\ disk' = [disk EXCEPT
                       ![ParamFile] = after,
                       ![BackupFile(ParamFile)] =
                           IF copied THEN copy2(disk[ParamFile], after)
                           ELSE @]
                /\ param' = [param EXCEPT !.pc = "updated", !.name = name,
                                          !.value = value,
                                          !.before = disk[ParamFile],
                                          !.backup = backup,
                                          !.copied = copied]
    /\ UNCHANGED <<pipe, lock, update, stop, entry, mdp, transcript, installed,
                   run, obs, outcome, session, workers, analysis>>

\* read_mdp_parameter(ParamFile, name) by the caller, after its update
ReadMdpParameter ==
    /\ entry \in {"update_mdp_parameter", "backup"}
    /\ param.pc = "updated"
    /\ param' = [param EXCEPT !.pc = "done", !.read =
                     read_mdp_parameter(disk[ParamFile], param.name)]
    /\ UNCHANGED <<pipe, disk, lock, update, stop, entry, files, mdp, transcript,
                   installed, run, obs, outcome, session, workers, analysis>>

----------------------------------------------------------------------------
(* run_mmpbsa: validation, worker count, group detection and launch *)

AnalysisRequired == {"md.tpr", "md.xtc", "topol.top", "mmpbsa.in"}
AnalysisFiles == AnalysisRequired \cup {"index.ndx"}

\* n_frames = 1000 when the frame count cannot be determined
FallbackFrames == 1000
\* the groups returned when nothing is detected
DefaultReceptor == 1
DefaultLigand == 13

\* the run_mmpbsa call and its locals: {} is None
IdleAnalysis ==
    [pc |-> "idle", asked |-> {}, missing |-> {}, n_frames |-> 0,
     start |-> 1, endframe |-> {}, interval |-> 1, cpu_count |-> 0,
     effective_frames |-> 0, n_cores |-> 0, groups |-> <<0, 0>>,
     last_progress |-> <<0, 1>>, nread |-> 0, progress |-> <<>>]

\* does the text `name` contain the text `kw`
Contains(name, kw) ==
    \E i \in 1..(Len(name) - Len(kw) + 1) :
        SubSeq(name, i, i + Len(kw) - 1) = kw

ligand_keywords ==
    {<<"u", "n", "k">>, <<"l", "i", "g">>, <<"m", "o", "l">>,
     <<"l", "i", "g", "a", "n", "d">>, <<"h", "e", "t">>,
     <<"r", "e", "s", "n", "a", "m", "e">>, <<"d", "r", "u", "g">>,
     <<"c", "o", "m", "p">>, <<"i", "n", "h">>, <<"s", "u", "b">>}
ion_keywords ==
    {<<"p", "o", "t">>, <<"c", "l", "a">>, <<"n", "a">>, <<"c", "l">>,
     <<"i", "o", "n">>, <<"t", "i", "p">>, <<"w", "a", "t">>,
     <<"s", "o", "l">>}

\* line.startswith('[') and line.endswith(']') on the stripped line
is_header(line) ==
    LET l == stripped(line)
    IN  l # <<>> /\ l[1] = "[" /\ l[Len(l)] = "]"

\* line[1:-1].strip().lower()
header_name(line) ==
    LET l == stripped(line)
    IN  Lowered(stripped(SubSeq(l, 2, Len(l) - 1)))

\* variant: every group named after the protein is a receptor
is_receptor_any_protein(name) == Contains(name, <<"p", "r", "o", "t", "e", "i", "n">>)

\* 'protein' in name and '-h' not in name
is_receptor(name) ==
    /\ Contains(name, <<"p", "r", "o", "t", "e", "i", "n">>)
    /\ ~Contains(name, <<"-", "h">>)

\* any(kw in name ...) and not any(ik in name ...)
is_ligand(name) ==
    /\ \E kw \in ligand_keywords : Contains(name, kw)
    /\ ~\E ik \in ion_keywords : Contains(name, ik)

\* detect_index_groups on a directory and the bytes of its index.ndx:
\* <<receptor, ligand>>, each the number of the first header that
\* qualifies, headers counted from 1
detect_index_groups(dir, bytes) ==
    IF "index.ndx" \notin dir THEN <<DefaultReceptor, DefaultLigand>>
    ELSE LET lines == readlines(decode(bytes))
             heads == {i \in 1..Len(lines) : is_header(lines[i])}
             num(i) == Cardinality({j \in heads : j <= i})
             rec == {i \in heads : is_receptor(header_name(lines[i]))}
             lig == {i \in heads : is_ligand(header_name(lines[i]))}
         IN  <<IF rec = {} THEN DefaultReceptor ELSE num(Nth(rec, 1)),
               IF lig = {} THEN DefaultLigand ELSE num(Nth(lig, 1))>>

\* effective_frames = max(1, (end - start + 1) // interval), where end is
\* the endframe setting unless it is missing or 0
effective_frames(n_frames, start, endframe, interval) ==
    LET end == IF endframe = {} \/ endframe = {0} THEN n_frames
               ELSE CHOOSE e \in endframe : TRUE
        q == (end - start + 1) \div interval
    IN  IF q > 1 THEN q ELSE 1

\* variant: a count the caller gives is passed on as it is
cores_as_given(n_cores, cpu_count, frames) ==
    IF n_cores = {}
    THEN LET c == IF cpu_count - 1 < frames THEN cpu_count - 1 ELSE frames
         IN  IF c > 1 THEN c ELSE 1
    ELSE CHOOSE c \in n_cores : TRUE

\* the -np value: by default min(cpu_count - 1, frames), at least 1; any
\* count above the frames is reduced to them
cores(n_cores, cpu_count, frames) ==
    LET c == IF n_cores = {}
             THEN LET d == IF cpu_count - 1 < frames THEN cpu_count - 1
                           ELSE frames
                  IN  IF d > 1 THEN d ELSE 1
             ELSE CHOOSE c \in n_cores : TRUE
    IN  IF c > frames THEN frames ELSE c

\* what a caller and its machine give run_mmpbsa: the n_cores argument,
\* the frames `gmx check` counts, the settings of mmpbsa.in, cpu_count()
CoreArgs ==
    IF entry = "mmpbsa" THEN {{}} \cup {{c} : c \in 0..MaxCpu} ELSE {{}}
FrameCounts ==
    IF entry = "mmpbsa" THEN {{}} \cup {{n} : n \in 1..MaxFrames}
    ELSE {{}, {MaxFrames}}
StartFrames == IF entry = "mmpbsa" THEN {1, 2} ELSE {1}
EndFrames ==
    IF entry = "mmpbsa" THEN {{}, {0}, {1}, {MaxFrames}} ELSE {{}}
Intervals == IF entry = "mmpbsa" THEN {0, 1, 2} ELSE {1}
CpuCounts == IF entry = "mmpbsa" THEN 1..MaxCpu ELSE {MaxCpu}

\* run_mmpbsa(..., n_cores) is called: the required files are checked and
\* the missing ones named in one error
AnalysisCall(n_cores) ==
    /\ entry \in {"run_mmpbsa", "mmpbsa", "groups", "progress"}
    /\ analysis.pc = "idle"
    /\ obs' = NoObs
    /\ LET missing == AnalysisRequired \ files
       IN  IF missing # {}
           THEN /\ analysis' = [analysis EXCEPT !.pc = "done",
                                                !.asked = n_cores,
                                                !.missing = missing]
                /\ outcome' = Raised("MissingFiles", 0)
           ELSE /\ analysis' = [analysis EXCEPT !.pc = "frames",
                                                !.asked = n_cores]
                /\ outcome' = NoOutcome
    /\ UNCHANGED <<pipe, disk, param, lock, update, stop, entry, files, mdp,
                   transcript, installed, run, session, workers>>

\* get_trajectory_frames spawns `gmx check` (when gmx does not resolve the
\* spawn fails and is caught) and gives `counted`, {} when it cannot tell;
\* the settings parsed from mmpbsa.in give the frames to analyse; the
\* worker count is chosen on a machine with cpu_count processors.  An
\* interval of 0 raises ZeroDivisionError
AnalysisFrames(counted, start, endframe, interval, cpu_count) ==
    /\ analysis.pc = "frames"
    /\ "gmx" \notin installed => counted = {}
    /\ obs' = IF "gmx" \in installed
              THEN [obs EXCEPT !.spawned = Append(@, "gmx_check")]
              ELSE obs
    /\ LET n_frames == IF counted = {} THEN FallbackFrames
                       ELSE CHOOSE n \in counted : TRUE
           a == [analysis EXCEPT !.n_frames = n_frames, !.start = start,
                                 !.endframe = endframe,
                                 !.interval = interval,
                                 !.cpu_count = cpu_count]
       IN  IF interval = 0
           THEN /\ analysis' = [a EXCEPT !.pc = "done"]
                /\ outcome' = Raised("ZeroDivision", 0)
           ELSE LET frames == effective_frames(n_frames, start, endframe,
                                               interval)
                IN  /\ analysis' = [a EXCEPT
                           !.pc = "groups",
                           !.effective_frames = frames,
                           !.n_cores = cores(a.asked, cpu_count, frames)]
                    /\ outcome' = outcome
    /\ UNCHANGED <<pipe, disk, param, lock, update, stop, entry, files, mdp,
                   transcript, installed, run, session, workers>>

\* no group is given by the caller: detect_index_groups(work_dir, ...)
AnalysisGroups ==
    /\ analysis.pc = "groups"
    /\ analysis' = [analysis EXCEPT
           !.pc = "tool_check",
           !.groups = detect_index_groups(files, disk["index.ndx"])]
    /\ UNCHANGED <<pipe, disk, param, lock, update, stop, entry, files, mdp,
                   transcript, installed, run, obs, outcome, session,
                   workers>>

\* which gmx_MMPBSA
AnalysisToolCheck ==
    /\ analysis.pc = "tool_check"
    /\ IF "gmx_MMPBSA" \in installed
       THEN /\ analysis' = [analysis EXCEPT !.pc = "spawn"]
            /\ outcome' = outcome
       ELSE /\ analysis' = [analysis EXCEPT !.pc = "done"]
            /\ outcome' = Raised("ToolNotFound", 0)
    /\ UNCHANGED <<pipe, disk, param, lock, update, stop, entry, files, mdp,
                   transcript, installed, run, obs, session, workers>>

\* subprocess.Popen(["mpirun", ..., "-np", n_cores, "gmx_MMPBSA", ...,
\* "-cg", receptor, ligand, ...])
AnalysisSpawn ==
    /\ analysis.pc = "spawn"
    /\ obs' = [obs EXCEPT !.spawned = Append(@, "gmx_MMPBSA")]
    /\ analysis' = [analysis EXCEPT !.pc = "stream"]
    /\ UNCHANGED <<pipe, disk, param, lock, update, stop, entry, files, mdp,
                   transcript, installed, run, outcome, session, workers>>

\* A percentage is the fraction <<num, den>>; for the numbers of the model
\* the float (current / total) * 100 compares and truncates as the fraction
pct_gt(a, b) == a[1] * b[2] > b[1] * a[2]

\* progress_callback(min(100, int(pct))): the value delivered
update_progress(pct) ==
    LET v == pct[1] \div pct[2] IN IF v > 100 THEN 100 ELSE v

\* variant: every percentage found is delivered
offer_always(a, pct) ==
    [a EXCEPT !.last_progress = pct,
              !.progress = Append(@, update_progress(pct))]

\* `if pct > last_progress: update_progress(pct); last_progress = pct`
offer(a, pct) ==
    IF pct_gt(pct, a.last_progress)
    THEN [a EXCEPT !.last_progress = pct,
                   !.progress = Append(@, update_progress(pct))]
    ELSE a

\* an output line of the analysis process, by what the three patterns find
\* in it: frame is {<<current, total>>} when the line has "frame" and a
\* "current/total", bar is {p} when it has "|" and "p%", stages the
\* stage markers it contains (1..5 in the order of stage_markers)
AnalysisLine(frame, bar, stages) ==
    [frame |-> frame, bar |-> bar, stages |-> stages]
AnalysisLines ==
    {AnalysisLine(f, b, st) :
        f \in {{}} \cup {{<<c, t>>} : c \in 0..MaxCount, t \in 0..MaxCount},
        b \in {{}, {50}, {150}},
        st \in {{}, {1}, {3}, {5}, {1, 3}}}

\* the stage markers of a line, tried in the order of the list
RECURSIVE offer_stages(_, _, _)
offer_stages(a, stages, i) ==
    IF i > 5 THEN a
    ELSE offer_stages(IF i \in stages THEN offer(a, <<20 * i, 1>>) ELSE a,
                      stages, i + 1)

\* the three patterns applied to a line whose frame total is not 0
read_progress(a, line) ==
    LET a1 == IF line.frame = {} THEN a
              ELSE LET f == CHOOSE f \in line.frame : TRUE
                   IN  offer(a, <<100 * f[1], f[2]>>)
        a2 == IF line.bar = {} THEN a1
              ELSE offer(a1, <<CHOOSE p \in line.bar : TRUE, 1>>)
    IN  offer_stages(a2, line.stages, 1)

\* one line of the analysis process is read; "current/0" raises
\* ZeroDivisionError, which the handler logs and raises again
AnalysisReadLine(line) ==
    /\ entry = "progress"
    /\ analysis.pc = "stream"
    /\ analysis.nread < MaxAnalysisLines
    /\ IF \E f \in line.frame : f[2] = 0
       THEN /\ analysis' = [analysis EXCEPT !.pc = "done", !.nread = @ + 1]
            /\ outcome' = Raised("ZeroDivision", 0)
       ELSE /\ analysis' = read_progress(
                               [analysis EXCEPT !.nread = @ + 1], line)
            /\ outcome' = outcome
    /\ UNCHANGED <<pipe, disk, param, lock, update, stop, entry, files, mdp,
                   transcript, installed, run, obs, session, workers>>

\* the analysis process exits with rc: update_progress(100) on 0
AnalysisExit(rc) ==
    /\ analysis.pc = "stream"
    /\ analysis' = [analysis EXCEPT
           !.pc = "done",
           !.progress = IF rc = 0 THEN Append(@, update_progress(<<100, 1>>))
                        ELSE @]
    /\ outcome' = IF rc = 0 THEN Returned(rc) ELSE Raised("AnalysisRuntime", rc)
    /\ UNCHANGED <<pipe, disk, param, lock, update, stop, entry, files, mdp,
                   transcript, installed, run, obs, session, workers>>

----------------------------------------------------------------------------
(* app.py: the session and its buttons *)

SessionDefaults ==
    [running |-> FALSE, paused |-> FALSE, finished |-> FALSE, error |-> None,
     progress |-> 0, md_pid |-> 0, total_steps |-> 0,
     current_stage |-> "setup", setup_completed |-> FALSE,
     logs |-> <<>>, log_queue |-> <<>>,
     analysis_logs |-> <<>>, analysis_log_queue |-> <<>>,
     run_mode |-> "CPU only",
     analysis_running |-> FALSE, analysis_finished |-> FALSE,
     analysis_progress |-> 0]

\* "Auto-detect setup completion from files": every pass of the script
AutoDetect(s, dir) ==
    IF "setup.gro" \in dir /\ ~s.setup_completed
    THEN [s EXCEPT !.setup_completed = TRUE] ELSE s

\* a line "Finished mdrun ..." of the engine's log
FinishedLine == [kind |-> "finished", n |-> 0]

\* what a completed production run leaves in the directory
ProductionOutputs == {"md.gro", "md.xtc", "md.tpr"}

\* "Auto-detect completed production from files": the three outputs exist
\* and one of the last 30 lines of md.log has "Finished"
finished_detected(dir, logs) ==
    /\ ProductionOutputs \subseteq dir
    /\ "md.log" \in dir
    /\ LET t == logs["md.log"]
           from == IF Len(t) > 30 THEN Len(t) - 29 ELSE 1
       IN  \E i \in from..Len(t) : t[i].line = FinishedLine
DetectFinished(s, dir, logs) ==
    IF finished_detected(dir, logs) /\ ~s.finished
    THEN [s EXCEPT !.finished = TRUE, !.progress = 100] ELSE s

\* the top of every pass of the script: the two detections
top_of_pass(s, dir, logs) == AutoDetect(DetectFinished(s, dir, logs), dir)

\* variant: the stage radio offers every stage at all times
AvailableStages_all(s) == StageSet

\* the stage radio: only Setup until setup_completed
AvailableStages(s) == IF s.setup_completed THEN StageSet ELSE {"setup"}

\* validate_inputs: the required files that are missing
required_files(stage) ==
    IF stage = "setup" THEN {"topol.top", "step3_input.gro"} ELSE {"topol.top"}
validate_inputs(dir, stage) == {f \in required_files(stage) : f \notin dir}

\* variant: no queued value is taken for the marker
is_sentinel_never(line) == FALSE

\* `line.strip() == "__SETUP_COMPLETED__"`
is_sentinel(line) == strip(line) = Sentinel

\* "Collect logs (main thread)": the queue is emptied; a marker sets
\* setup_completed and is dropped, any other value is appended to logs
RECURSIVE drain(_)
drain(s) ==
    IF s.log_queue = <<>> THEN s
    ELSE LET line == Head(s.log_queue)
             t == [s EXCEPT !.log_queue = Tail(@)]
         IN  IF is_sentinel(line)
             THEN drain([t EXCEPT !.setup_completed = TRUE])
             ELSE drain([t EXCEPT !.logs = Append(@, line)])

\* md_thread.is_alive() of the thread started last (md_thread), FALSE when
\* there is none
md_thread_alive(ws) == ws # <<>> /\ ws[Len(ws)].state # "dead"

\* variant: the script does not look at md_thread
watchdog_absent(s, ws) == s

\* the state shows running but md_thread has ended
watchdog(s, ws) ==
    IF s.running /\ ws # <<>> /\ ~md_thread_alive(ws)
    THEN [s EXCEPT !.running = FALSE, !.progress = 100, !.finished = TRUE]
    ELSE s

\* the end of a pass of the script that no st.rerun() cut short
end_of_pass(s, ws) == watchdog(drain(s), ws)

\* the Run button is disabled
run_disabled(s) ==
    \/ s.running
    \/ s.current_stage \in {"equilibration", "production"} /\ ~s.setup_completed

\* the "Run mode" radio: gpu_info() lists a GPU when nvidia-smi names one
RunModes(tools) ==
    IF "nvidia-smi" \in tools THEN {"CPU only", "GPU (recommended)"}
    ELSE {"CPU only"}

\* use_gpu_param of the worker Run starts: no GPU for the setup stage
run_use_gpu(s) ==
    IF s.current_stage = "setup" THEN FALSE
    ELSE s.run_mode = "GPU (recommended)"

\* use_gpu_param of the worker Resume starts
resume_use_gpu(s) == s.run_mode = "GPU (recommended)"

NewWorker(stage, tot, resume, use_gpu) ==
    [state |-> "started", stage |-> stage, total_steps |-> tot,
     resume |-> resume, use_gpu |-> use_gpu]

\* the user picks a run mode on the radio
SelectRunMode(mode) ==
    /\ entry = "app"
    /\ mode \in RunModes(installed)
    /\ mode # session.run_mode
    /\ session' = end_of_pass(
                      [top_of_pass(session, files, transcript)
                          EXCEPT !.run_mode = mode], workers)
    /\ UNCHANGED <<pipe, disk, param, lock, update, stop, entry, files, mdp,
                   transcript, installed, run, obs, outcome, workers,
                   analysis>>

\* the user picks a stage on the radio
SelectStage(stage) ==
    /\ entry = "app"
    /\ LET s == top_of_pass(session, files, transcript)
       IN  /\ stage \in AvailableStages(s)
           /\ stage # session.current_stage
           /\ session' = end_of_pass([s EXCEPT !.current_stage = stage],
                                     workers)
    /\ UNCHANGED <<pipe, disk, param, lock, update, stop, entry, files, mdp, transcript, installed, run, obs,
                   outcome, workers, analysis>>

\* the user clicks "Run MD" for a duration of ns nanoseconds
RunAction(ns) ==
    /\ entry = "app"
    /\ Len(workers) < MaxWorkers
    /\ LET s == top_of_pass(session, files, transcript)
           stage == s.current_stage
           errors == validate_inputs(files, stage)
           r == get_mdp_file(files, stage)
           dir1 == FilesAfterResolve(files, r)
           mdp1 == MdpAfterResolve(mdp, r, stage)
       IN  /\ ~run_disabled(s)
           /\ IF errors # {}
              THEN /\ files' = dir1
                   /\ mdp' = mdp1
                   /\ session' = end_of_pass(s, workers)
                   /\ workers' = workers
              ELSE LET r2 == get_mdp_file(dir1, stage)
                       nsteps == nsteps_of[ns, mdp1[r2.file].dt]
                   IN  /\ files' = dir1 \cup {BackupFile(r2.file)}
                       /\ mdp' = [mdp1 EXCEPT ![r2.file].nsteps = {nsteps}]
                       /\ session' = [s EXCEPT
                             !.total_steps = nsteps, !.running = TRUE,
                             !.finished = FALSE, !.paused = FALSE,
                             !.error = None, !.progress = 0,
                             !.logs = <<>>]
                       /\ workers' = Append(workers,
                                            NewWorker(stage, nsteps, FALSE,
                                                      run_use_gpu(s)))
    /\ UNCHANGED <<pipe, disk, param, lock, update, stop, entry, transcript, installed, run, obs, outcome, analysis>>

\* a pass of the script with no button clicked (auto-refresh, "Refresh")
RenderPass ==
    /\ entry = "app"
    /\ session' = end_of_pass(top_of_pass(session, files, transcript),
                              workers)
    /\ UNCHANGED <<pipe, disk, param, lock, update, stop, entry, files, mdp, transcript, installed, run, obs,
                   outcome, workers, analysis>>

\* the user clicks "Pause": stop_md(md_pid), then the flags
PauseAction ==
    /\ entry = "app"
    /\ LET s == top_of_pass(session, files, transcript)
       IN  /\ s.running
           /\ session' = end_of_pass(
                             [s EXCEPT !.running = FALSE, !.paused = TRUE],
                             workers)
    /\ UNCHANGED <<pipe, disk, param, lock, update, stop, entry, files, mdp, transcript, installed, run, obs,
                   outcome, workers, analysis>>

\* the user clicks "Resume"
ResumeAction ==
    /\ entry = "app"
    /\ Len(workers) < MaxWorkers
    /\ LET s == top_of_pass(session, files, transcript)
       IN  /\ ~s.running /\ s.paused
           /\ session' = [s EXCEPT !.running = TRUE, !.error = None,
                                   !.paused = FALSE]
           /\ workers' = Append(workers,
                 NewWorker(s.current_stage, s.total_steps, TRUE,
                           resume_use_gpu(s)))
    /\ UNCHANGED <<pipe, disk, param, lock, update, stop, entry, files, mdp, transcript, installed, run, obs,
                   outcome, analysis>>

\* worker thread w runs run_job: it calls run_md with RunJobKwargs
WorkerRunJob(w) ==
    /\ w \in 1..Len(workers)
    /\ workers[w].state = "started"
    /\ run.pc \in {"idle", "done"}
    /\ EnterRun(w, RunJobKwargs, workers[w].stage, workers[w].total_steps,
                workers[w].resume)
    /\ UNCHANGED <<pipe, disk, param, lock, update, stop, entry, files, mdp, transcript, installed, analysis>>

----------------------------------------------------------------------------
(* app.py: _state_lock.  The script (thread "main") and a worker take     *)
(* steps of their own: entering a `with _state_lock:` block, its writes,   *)
(* leaving it; and the writes the script makes outside any block.          *)

\* _state_lock before any thread takes it: nobody owns it, both threads
\* are outside their blocks; `by` is the thread that took the last step
FreeLock ==
    [owner |-> "none", main |-> "idle", worker |-> "idle",
     analysis |-> "idle", by |-> "none"]

\* the session fields the worker and the script share
SharedFields ==
    {"running", "paused", "finished", "progress", "md_pid", "error",
     "setup_completed"}

\* "Auto-detect setup completion from files": setup_completed is set, in
\* no `with` block, whoever owns the lock
LockAutoDetect ==
    /\ entry \in {"lock", "hold"}
    /\ lock.main = "idle"
    /\ AutoDetect(session, files) # session
    /\ session' = AutoDetect(session, files)
    /\ lock' = [lock EXCEPT !.by = "main"]
    /\ UNCHANGED <<pipe, disk, param, update, stop, entry, files, mdp, transcript,
                   installed, run, obs, outcome, workers, analysis>>

\* "Run MD" is clicked with valid inputs: the parameter file is resolved
\* and updated, then the script enters `with _state_lock:` once the lock
\* is free
LockRunEnter(ns) ==
    /\ entry \in {"lock", "hold"}
    /\ lock.main = "idle" /\ lock.owner = "none"
    /\ Len(workers) < MaxWorkers
    /\ ~run_disabled(session)
    /\ validate_inputs(files, session.current_stage) = {}
    /\ LET stage == session.current_stage
           r == get_mdp_file(files, stage)
           dir1 == FilesAfterResolve(files, r)
           mdp1 == MdpAfterResolve(mdp, r, stage)
           r2 == get_mdp_file(dir1, stage)
           nsteps == nsteps_of[ns, mdp1[r2.file].dt]
       IN  /\ files' = dir1 \cup {BackupFile(r2.file)}
           /\ mdp' = [mdp1 EXCEPT ![r2.file].nsteps = {nsteps}]
    /\ lock' = [lock EXCEPT !.owner = "main", !.main = "run_block",
                            !.by = "main"]
    /\ UNCHANGED <<pipe, disk, param, update, stop, entry, transcript, installed,
                   run, obs, outcome, session, workers, analysis>>

\* the writes of the Run handler's block
LockRunWrites ==
    /\ lock.main = "run_block"
    /\ LET r == get_mdp_file(files, session.current_stage)
           nsteps == CHOOSE n \in mdp[r.file].nsteps : TRUE
       IN  session' = [session EXCEPT
               !.total_steps = nsteps, !.running = TRUE,
               !.finished = FALSE, !.paused = FALSE,
               !.error = None, !.progress = 0, !.logs = <<>>]
    /\ lock' = [lock EXCEPT !.main = "run_written", !.by = "main"]
    /\ UNCHANGED <<pipe, disk, param, update, stop, entry, files, mdp, transcript,
                   installed, run, obs, outcome, workers, analysis>>

\* the block is left and the worker thread started
LockRunLeave ==
    /\ lock.main = "run_written"
    /\ lock' = [lock EXCEPT !.owner = "none", !.main = "idle",
                            !.by = "main"]
    /\ workers' = Append(workers, NewWorker(session.current_stage,
                                            session.total_steps, FALSE,
                                            run_use_gpu(session)))
    /\ UNCHANGED <<pipe, disk, param, update, stop, entry, files, mdp, transcript,
                   installed, run, obs, outcome, session, analysis>>

\* worker w calls run_md, which raises (its arguments do not bind); the
\* handler enters `with _state_lock:` once the lock is free
LockWorkerEnter(w) ==
    /\ entry \in {"lock", "hold"}
    /\ w \in 1..Len(workers)
    /\ workers[w].state = "started"
    /\ ~BindArgs(RunJobKwargs)
    /\ lock.worker = "idle" /\ lock.owner = "none"
    /\ lock' = [lock EXCEPT !.owner = "worker", !.worker = "fail_block",
                            !.by = "worker"]
    /\ workers' = [workers EXCEPT ![w].state = "in_handler"]
    /\ UNCHANGED <<pipe, disk, param, update, stop, entry, files, mdp, transcript,
                   installed, run, obs, outcome, session, analysis>>

\* the writes of the handler's block
LockWorkerWrites ==
    /\ lock.worker = "fail_block"
    /\ session' = [job_failed(session, "TypeError") EXCEPT
                       !.log_queue = session.log_queue]
    /\ lock' = [lock EXCEPT !.worker = "fail_written", !.by = "worker"]
    /\ UNCHANGED <<pipe, disk, param, update, stop, entry, files, mdp, transcript,
                   installed, run, obs, outcome, workers, analysis>>

\* the block is left, the error is logged and the thread ends
LockWorkerLeave(w) ==
    /\ lock.worker = "fail_written"
    /\ w \in 1..Len(workers)
    /\ workers[w].state = "in_handler"
    /\ lock' = [lock EXCEPT !.owner = "none", !.worker = "idle",
                            !.by = "worker"]
    /\ session' = log_callback(session, <<LogText>>)
    /\ workers' = [workers EXCEPT ![w] = DeadWorker]
    /\ UNCHANGED <<pipe, disk, param, update, stop, entry, files, mdp, transcript,
                   installed, run, obs, outcome, analysis>>

\* the end of a pass of the script: the queue is drained and the watchdog
\* looks at md_thread, in no `with` block
LockEndOfPass ==
    /\ entry \in {"lock", "hold"}
    /\ lock.main = "idle"
    /\ end_of_pass(session, workers) # session
    /\ session' = end_of_pass(session, workers)
    /\ lock' = [lock EXCEPT !.by = "main"]
    /\ UNCHANGED <<pipe, disk, param, update, stop, entry, files, mdp, transcript,
                   installed, run, obs, outcome, workers, analysis>>

----------------------------------------------------------------------------
(* run_md: the output pipe of the compute process, read in text mode.      *)
(* Popen(..., text=True, universal_newlines=True) decodes the bytes with   *)
(* universal newlines; the loop passes each line readline() returns to     *)
(* log_callback and writes it to the transcript (opened in text mode on a   *)
(* system whose line separator is "\n").                                    *)

PipeChars == {"a", "b", "\r", "\n"}

IdlePipe == [pc |-> "idle", emitted |-> <<>>, closed |-> FALSE,
             lines |-> <<>>, written |-> <<>>]

\* the text decoded so far: a final "\r" is held back until the next byte,
\* or the end of the stream, tells whether a "\n" follows it
decoded_so_far(p) ==
    LET b == p.emitted
        held == ~p.closed /\ b # <<>> /\ b[Len(b)] = "\r"
    IN  decode(IF held THEN SubSeq(b, 1, Len(b) - 1) ELSE b)

\* the lines readline() can return: the complete ones, and the rest of the
\* text once the stream has ended
available_lines(p) ==
    LET ls == readlines(decoded_so_far(p))
    IN  IF p.closed THEN ls
        ELSE SelectSeq(ls, LAMBDA l : l[Len(l)] = "\n")

\* variant: readline() returns the line it returned before
readline_again(p) ==
    LET ls == available_lines(p)
        k == Len(p.lines)
    IN  IF k = 0 THEN ls[1] ELSE ls[k]

\* process.stdout.readline(): the next line not yet returned
readline(p) == available_lines(p)[Len(p.lines) + 1]

\* the compute process writes one byte to its output
PipeEmit(c) ==
    /\ entry = "pipe"
    /\ pipe.pc = "reading"
    /\ ~pipe.closed
    /\ Len(pipe.emitted) < MaxPipe
    /\ pipe' = [pipe EXCEPT !.emitted = Append(@, c)]
    /\ UNCHANGED <<disk, param, lock, update, stop, entry, files, mdp,
                   transcript, installed, run, obs, outcome, session,
                   workers, analysis>>

\* the compute process closes its output (it exits)
PipeClose ==
    /\ entry = "pipe"
    /\ pipe.pc = "reading"
    /\ ~pipe.closed
    /\ pipe' = [pipe EXCEPT !.closed = TRUE]
    /\ UNCHANGED <<disk, param, lock, update, stop, entry, files, mdp,
                   transcript, installed, run, obs, outcome, session,
                   workers, analysis>>

\* one iteration of the loop: log_callback(line), then f.write(line)
PipeReadLine ==
    /\ entry = "pipe"
    /\ pipe.pc = "reading"
    /\ Len(pipe.lines) < Len(available_lines(pipe))
    /\ LET line == readline(pipe)
       IN  pipe' = [pipe EXCEPT !.lines = Append(@, line),
                                !.written = @ \o line]
    /\ UNCHANGED <<disk, param, lock, update, stop, entry, files, mdp,
                   transcript, installed, run, obs, outcome, session,
                   workers, analysis>>

\* readline() returns '' at the end of the stream: the loop ends
PipeEnd ==
    /\ entry = "pipe"
    /\ pipe.pc = "reading"
    /\ pipe.closed
    /\ Len(pipe.lines) = Len(available_lines(pipe))
    /\ pipe' = [pipe EXCEPT !.pc = "done"]
    /\ UNCHANGED <<disk, param, lock, update, stop, entry, files, mdp,
                   transcript, installed, run, obs, outcome, session,
                   workers, analysis>>

----------------------------------------------------------------------------
(* Initial states: the working directory before the program is used *)

Entries == {"run_md", "run_mmpbsa", "app"}
NoContent == [nsteps |-> {}, dt |-> {}]
\* a parameter file is absent, or one CHARMM-GUI file is present, with or
\* without an nsteps line
InitContents == {[nsteps |-> n, dt |-> {}] : n \in {{}, {MaxStep}}}
InitMdpSets == {{}} \cup {{stage_mdp_options(st)[1]} : st \in StageSet}
\* run-description files left by earlier runs
InitTprSets == {{}, {TprFile(p) : p \in Prefixes}}
InitInstalledMd == {{}, {"gmx"}, {"gmx_mpi"}}
InitInstalledApp == {{}, {"gmx"}}
InitInstalledAnalysis == SUBSET {"gmx", "gmx_MMPBSA"}

InitDirs(e) ==
    IF e = "run_mmpbsa" THEN SUBSET AnalysisFiles
    ELSE {S \cup T \cup M \cup P :
            S \in SUBSET Structs, T \in SUBSET {"topol.top"},
            M \in InitMdpSets, P \in InitTprSets}

Init ==
    /\ entry \in Entries
    /\ files \in InitDirs(entry)
    /\ \E c \in InitContents :
          mdp = [f \in AllMdp |-> IF f \in files THEN c ELSE NoContent]
    /\ transcript = [l \in LogFiles |-> <<>>]
    /\ installed \in (IF entry = "run_mmpbsa" THEN InitInstalledAnalysis
                      ELSE IF entry = "app" THEN InitInstalledApp
                      ELSE InitInstalledMd)
    /\ run = IdleRun
    /\ obs = NoObs
    /\ outcome = NoOutcome
    /\ session = SessionDefaults
    /\ workers = <<>>
    /\ analysis = IdleAnalysis
    /\ stop = IdleStop
    /\ update = IdleUpdate
    /\ disk = NoText
    /\ param = IdleParam
    /\ lock = FreeLock
    /\ pipe = IdlePipe

Next ==
    \/ \E stage \in StageSet, tot \in ReqTotals : DirectCall(stage, tot)
    \/ Validate
    \/ CheckGmx
    \/ Resolve
    \/ StartGrompp
    \/ \E rc \in GromppCodes : GromppExit(rc)
    \/ GromppTimeout
    \/ StartMdrun
    \/ \E line \in Lines, elapsed \in BOOLEAN : ReadLine(line, elapsed)
    \/ \E rc \in MdrunCodes : StreamClose(rc)
    \/ \E n_cores \in CoreArgs : AnalysisCall(n_cores)
    \/ \E counted \in FrameCounts, start \in StartFrames,
          endframe \in EndFrames, interval \in Intervals,
          cpu_count \in CpuCounts :
          AnalysisFrames(counted, start, endframe, interval, cpu_count)
    \/ AnalysisGroups
    \/ AnalysisToolCheck
    \/ AnalysisSpawn
    \/ \E rc \in MdrunCodes : AnalysisExit(rc)
    \/ \E stage \in StageSet : SelectStage(stage)
    \/ \E ns \in NsChoices : RunAction(ns)
    \/ RenderPass
    \/ PauseAction
    \/ ResumeAction
    \/ \E w \in 1..MaxWorkers : WorkerRunJob(w)

Spec == Init /\ [][Next]_vars

----------------------------------------------------------------------------
(* The resolvers called on their own: find_mdp_file and get_mdp_file on     *)
(* every combination of a stage's candidate files.                         *)

ResolveDirs == UNION {SUBSET SeqToSet(stage_mdp_options(st)) : st \in StageSet}

InitResolve ==
    /\ entry = "resolve"
    /\ files \in ResolveDirs
    /\ \E c \in InitContents :
          mdp = [f \in AllMdp |-> IF f \in files THEN c ELSE NoContent]
    /\ transcript = [l \in LogFiles |-> <<>>]
    /\ installed = {}
    /\ run = IdleRun
    /\ obs = NoObs
    /\ outcome = NoOutcome
    /\ session = SessionDefaults
    /\ workers = <<>>
    /\ analysis = IdleAnalysis
    /\ stop = IdleStop
    /\ update = IdleUpdate
    /\ disk = NoText
    /\ param = IdleParam
    /\ lock = FreeLock
    /\ pipe = IdlePipe

\* a call of gromacs_runner.find_mdp_file(gromacs_dir, stage)
ResolveFind(stage) ==
    /\ entry = "resolve"
    /\ run.pc = "idle"
    /\ LET r == find_mdp_file(files, stage)
       IN  /\ files' = FilesAfterResolve(files, r)
           /\ mdp' = MdpAfterResolve(mdp, r, stage)
           /\ run' = [run EXCEPT !.pc = "found", !.stage = stage,
                                 !.mdp_file = r.file]
    /\ UNCHANGED <<pipe, disk, param, lock, update, stop, entry, transcript, installed, obs, outcome, session,
                   workers, analysis>>

\* a call of mdp_utils.get_mdp_file(gromacs_dir, stage)
ResolveGet(stage) ==
    /\ entry = "resolve"
    /\ run.pc = "idle"
    /\ LET r == get_mdp_file(files, stage)
       IN  /\ files' = FilesAfterResolve(files, r)
           /\ mdp' = MdpAfterResolve(mdp, r, stage)
           /\ run' = [run EXCEPT !.pc = "got", !.stage = stage,
                                 !.mdp_file = r.file]
    /\ UNCHANGED <<pipe, disk, param, lock, update, stop, entry, transcript, installed, obs, outcome, session,
                   workers, analysis>>

NextResolve ==
    \/ \E stage \in StageSet : ResolveFind(stage)
    \/ \E stage \in StageSet : ResolveGet(stage)

SpecResolve == InitResolve /\ [][NextResolve]_vars

\* stop_md called on its own, against every behaviour of the target process
InitStop ==
    /\ entry = "stop_md"
    /\ files = {}
    /\ mdp = [f \in AllMdp |-> NoContent]
    /\ transcript = [l \in LogFiles |-> <<>>]
    /\ installed = {}
    /\ run = IdleRun
    /\ obs = NoObs
    /\ outcome = NoOutcome
    /\ session = SessionDefaults
    /\ workers = <<>>
    /\ analysis = IdleAnalysis
    /\ \E p \in ProcStates : stop = [IdleStop EXCEPT !.proc = p]
    /\ update = IdleUpdate
    /\ disk = NoText
    /\ param = IdleParam
    /\ lock = FreeLock
    /\ pipe = IdlePipe

NextStop ==
    \/ \E pid \in Pids, timeout \in 0..MaxPolls : StopCall(pid, timeout)
    \/ ProcExits
    \/ StopProbe
    \/ StopTerm
    \/ StopPoll
    \/ StopKill
    \/ StopVerify

SpecStop == InitStop /\ [][NextStop]_vars

\* the log queue on its own: a worker puts any values on it, the script's
\* passes collect them
LogItems == {LogText, Sentinel, SentinelPadded}

\* a worker thread calls log_callback(item)
EmitLog(item) ==
    /\ entry = "app"
    /\ Len(session.logs) + Len(session.log_queue) < MaxEmitted
    /\ session' = log_callback(session, <<item>>)
    /\ UNCHANGED <<pipe, disk, param, lock, update, stop, entry, files, mdp, transcript, installed, run, obs,
                   outcome, workers, analysis>>

\* an analysis worker calls log_cb(item): the value is put on the
\* analysis queue
EmitAnalysisLog(item) ==
    /\ entry = "app"
    /\ Len(session.analysis_logs) + Len(session.analysis_log_queue)
          < MaxEmitted
    /\ session' = [session EXCEPT !.analysis_log_queue = Append(@, item)]
    /\ UNCHANGED <<pipe, disk, param, lock, update, stop, entry, files, mdp,
                   transcript, installed, run, obs, outcome, workers,
                   analysis>>

InitDrain ==
    /\ entry = "app"
    /\ files = {}
    /\ mdp = [f \in AllMdp |-> NoContent]
    /\ transcript = [l \in LogFiles |-> <<>>]
    /\ installed = {}
    /\ run = IdleRun
    /\ obs = NoObs
    /\ outcome = NoOutcome
    /\ session = SessionDefaults
    /\ workers = <<>>
    /\ analysis = IdleAnalysis
    /\ stop = IdleStop
    /\ update = IdleUpdate
    /\ disk = NoText
    /\ param = IdleParam
    /\ lock = FreeLock
    /\ pipe = IdlePipe

NextDrain ==
    \/ \E item \in LogItems : EmitLog(item)
    \/ RenderPass

SpecDrain == InitDrain /\ [][NextDrain]_vars

\* the watchdog on every combination of the running flag and of the state
\* of md_thread, with a script that is run again and again (while running
\* is set the page refreshes itself every 2 s)
WatchdogSessions ==
    {[SessionDefaults EXCEPT !.running = r, !.paused = p, !.progress = g] :
        r \in BOOLEAN, p \in BOOLEAN, g \in {0, 50}}
WatchdogThreads ==
    {<<>>} \cup {<<[NewWorker(stage, MaxStep, FALSE, FALSE) EXCEPT !.state = x]>> :
                    stage \in StageSet, x \in {"started", "dead"}}

InitWatchdog ==
    /\ entry = "app"
    /\ files = {}
    /\ mdp = [f \in AllMdp |-> NoContent]
    /\ transcript = [l \in LogFiles |-> <<>>]
    /\ installed = {}
    /\ run = IdleRun
    /\ obs = NoObs
    /\ outcome = NoOutcome
    /\ session \in WatchdogSessions
    /\ workers \in WatchdogThreads
    /\ analysis = IdleAnalysis
    /\ stop = IdleStop
    /\ update = IdleUpdate
    /\ disk = NoText
    /\ param = IdleParam
    /\ lock = FreeLock
    /\ pipe = IdlePipe

SpecWatchdog == InitWatchdog /\ [][NextDrain]_vars /\ WF_vars(RenderPass)

\* the page opened on a directory in which a production run has completed
InitDetect ==
    /\ entry = "app"
    /\ \E P \in SUBSET ProductionOutputs, L \in SUBSET {"md.log"},
          S \in SUBSET {"setup.gro"} :
          files = {"topol.top", "step3_input.gro"} \cup P \cup L \cup S
    /\ mdp = [f \in AllMdp |-> NoContent]
    /\ \E t \in {<<>>, <<LineEntry(PlainLine)>>,
                  <<LineEntry(FinishedLine), LineEntry(PlainLine)>>} :
          transcript = [l \in LogFiles |->
                           IF l = "md.log" /\ l \in files THEN t ELSE <<>>]
    /\ installed = {"gmx"}
    /\ run = IdleRun
    /\ obs = NoObs
    /\ outcome = NoOutcome
    /\ session = SessionDefaults
    /\ workers = <<>>
    /\ analysis = IdleAnalysis
    /\ stop = IdleStop
    /\ update = IdleUpdate
    /\ disk = NoText
    /\ param = IdleParam
    /\ lock = FreeLock
    /\ pipe = IdlePipe

NextApp ==
    \/ \E stage \in StageSet : SelectStage(stage)
    \/ \E ns \in NsChoices : RunAction(ns)
    \/ RenderPass
    \/ PauseAction
    \/ ResumeAction
    \/ \E w \in 1..MaxWorkers : WorkerRunJob(w)

SpecDetect == InitDetect /\ [][NextApp]_vars

\* the page on a machine with a GPU, on a directory prepared for setup
InitGpu ==
    /\ entry = "app"
    /\ files \in {{"topol.top", "step3_input.gro"},
                  {"topol.top", "step3_input.gro", "setup.gro"}}
    /\ mdp = [f \in AllMdp |-> NoContent]
    /\ transcript = [l \in LogFiles |-> <<>>]
    /\ installed = {"gmx", "nvidia-smi"}
    /\ run = IdleRun
    /\ obs = NoObs
    /\ outcome = NoOutcome
    /\ session = SessionDefaults
    /\ workers = <<>>
    /\ analysis = IdleAnalysis
    /\ stop = IdleStop
    /\ update = IdleUpdate
    /\ disk = NoText
    /\ param = IdleParam
    /\ lock = FreeLock
    /\ pipe = IdlePipe

NextGpu ==
    \/ NextApp
    \/ \E mode \in RunModes(installed) : SelectRunMode(mode)

SpecGpu == InitGpu /\ [][NextGpu]_vars

\* both queues, with a script that is run again and again: the page
\* refreshes itself every 2 s while a run or an analysis is in progress,
\* and every click runs a pass
NextQueues ==
    \/ \E item \in LogItems : EmitLog(item)
    \/ \E item \in LogItems : EmitAnalysisLog(item)
    \/ RenderPass

SpecQueues == InitDrain /\ [][NextQueues]_vars /\ WF_vars(RenderPass)

\* run_md on one prepared directory, with a longer output stream
InitStream ==
    /\ entry = "stream"
    /\ files = {"topol.top", "step3_input.gro"}
    /\ mdp = [f \in AllMdp |-> NoContent]
    /\ transcript = [l \in LogFiles |-> <<>>]
    /\ installed = {"gmx"}
    /\ run = IdleRun
    /\ obs = NoObs
    /\ outcome = NoOutcome
    /\ session = SessionDefaults
    /\ workers = <<>>
    /\ analysis = IdleAnalysis
    /\ stop = IdleStop
    /\ update = IdleUpdate
    /\ disk = NoText
    /\ param = IdleParam
    /\ lock = FreeLock
    /\ pipe = IdlePipe

NextStream ==
    \/ \E stage \in StageSet, tot \in ReqTotals : DirectCall(stage, tot)
    \/ Validate
    \/ CheckGmx
    \/ Resolve
    \/ StartGrompp
    \/ \E rc \in GromppCodes : GromppExit(rc)
    \/ GromppTimeout
    \/ StartMdrun
    \/ \E line \in Lines, elapsed \in BOOLEAN : ReadLine(line, elapsed)
    \/ \E rc \in MdrunCodes : StreamClose(rc)

SpecStream == InitStream /\ [][NextStream]_vars

\* the compute process has just been started; its output is read
InitPipe ==
    /\ entry = "pipe"
    /\ files = {"topol.top", "step3_input.gro"}
    /\ mdp = [f \in AllMdp |-> NoContent]
    /\ transcript = [l \in LogFiles |-> <<>>]
    /\ installed = {"gmx"}
    /\ run = IdleRun
    /\ obs = NoObs
    /\ outcome = NoOutcome
    /\ session = SessionDefaults
    /\ workers = <<>>
    /\ analysis = IdleAnalysis
    /\ stop = IdleStop
    /\ update = IdleUpdate
    /\ disk = NoText
    /\ param = IdleParam
    /\ lock = FreeLock
    /\ pipe = [IdlePipe EXCEPT !.pc = "reading"]

NextPipe ==
    \/ \E c \in PipeChars : PipeEmit(c)
    \/ PipeClose
    \/ PipeReadLine
    \/ PipeEnd

SpecPipe == InitPipe /\ [][NextPipe]_vars

\* the page used with the lock observed: the script and the workers it
\* starts, one step at a time
InitLock ==
    /\ entry = "lock"
    /\ files \in InitDirs("app")
    /\ \E c \in InitContents :
          mdp = [f \in AllMdp |-> IF f \in files THEN c ELSE NoContent]
    /\ transcript = [l \in LogFiles |-> <<>>]
    /\ installed = {"gmx"}
    /\ run = IdleRun
    /\ obs = NoObs
    /\ outcome = NoOutcome
    /\ session = SessionDefaults
    /\ workers = <<>>
    /\ analysis = IdleAnalysis
    /\ stop = IdleStop
    /\ update = IdleUpdate
    /\ disk = NoText
    /\ param = IdleParam
    /\ lock = FreeLock
    /\ pipe = IdlePipe

NextLock ==
    \/ LockAutoDetect
    \/ \E ns \in NsChoices : LockRunEnter(ns)
    \/ LockRunWrites
    \/ LockRunLeave
    \/ \E w \in 1..MaxWorkers : LockWorkerEnter(w)
    \/ LockWorkerWrites
    \/ \E w \in 1..MaxWorkers : LockWorkerLeave(w)
    \/ LockEndOfPass

SpecLock == InitLock /\ [][NextLock]_vars

\* `with _state_lock:` is entered by thread t, which goes on at pc
enter_block(l, t, pc) == [l EXCEPT !.owner = t, ![t] = pc, !.by = t]

\* variant: the block is left with the lock still held
leave_block_held(l, t, pc) == [l EXCEPT ![t] = pc, !.by = t]

\* the `with` block is left by thread t, which goes on at pc
leave_block(l, t, pc) == [l EXCEPT !.owner = "none", ![t] = pc, !.by = t]

\* "Pause" is clicked while a run is on: the script calls stop_md(md_pid),
\* which probes, signals and polls the process, before it asks for the lock
LockPauseCall ==
    /\ entry = "hold"
    /\ lock.main = "idle"
    /\ session.running
    /\ lock' = [lock EXCEPT !.main = "stop_md", !.by = "main"]
    /\ UNCHANGED <<pipe, disk, param, update, stop, entry, files, mdp,
                   transcript, installed, run, obs, outcome, session,
                   workers, analysis>>

\* stop_md has returned; the script enters the block once the lock is free
LockPauseEnter ==
    /\ lock.main = "stop_md"
    /\ lock.owner = "none"
    /\ lock' = enter_block(lock, "main", "pause_block")
    /\ UNCHANGED <<pipe, disk, param, update, stop, entry, files, mdp,
                   transcript, installed, run, obs, outcome, session,
                   workers, analysis>>

\* the writes of the Pause handler's block
LockPauseWrites ==
    /\ lock.main = "pause_block"
    /\ session' = [session EXCEPT !.running = FALSE, !.paused = TRUE]
    /\ lock' = [lock EXCEPT !.main = "pause_written", !.by = "main"]
    /\ UNCHANGED <<pipe, disk, param, update, stop, entry, files, mdp,
                   transcript, installed, run, obs, outcome, workers,
                   analysis>>

LockPauseLeave ==
    /\ lock.main = "pause_written"
    /\ lock' = leave_block(lock, "main", "idle")
    /\ UNCHANGED <<pipe, disk, param, update, stop, entry, files, mdp,
                   transcript, installed, run, obs, outcome, session,
                   workers, analysis>>

\* "Resume" is clicked: the script enters the block once the lock is free
LockResumeEnter ==
    /\ entry = "hold"
    /\ lock.main = "idle" /\ lock.owner = "none"
    /\ Len(workers) < MaxWorkers
    /\ ~session.running /\ session.paused
    /\ lock' = enter_block(lock, "main", "resume_block")
    /\ UNCHANGED <<pipe, disk, param, update, stop, entry, files, mdp,
                   transcript, installed, run, obs, outcome, session,
                   workers, analysis>>

\* the writes of the Resume handler's block
LockResumeWrites ==
    /\ lock.main = "resume_block"
    /\ session' = [session EXCEPT !.running = TRUE, !.error = None,
                                  !.paused = FALSE]
    /\ lock' = [lock EXCEPT !.main = "resume_written", !.by = "main"]
    /\ UNCHANGED <<pipe, disk, param, update, stop, entry, files, mdp,
                   transcript, installed, run, obs, outcome, workers,
                   analysis>>

\* the block is left and the worker thread started
LockResumeLeave ==
    /\ lock.main = "resume_written"
    /\ lock' = leave_block(lock, "main", "idle")
    /\ workers' = Append(workers, NewWorker(session.current_stage,
                                            session.total_steps, TRUE,
                                            resume_use_gpu(session)))
    /\ UNCHANGED <<pipe, disk, param, update, stop, entry, files, mdp,
                   transcript, installed, run, obs, outcome, session,
                   analysis>>

\* "Run MMPBSA" is clicked (the button is disabled while an analysis
\* runs): the script enters the block once the lock is free
LockAnalysisEnter ==
    /\ entry = "hold"
    /\ lock.main = "idle" /\ lock.owner = "none"
    /\ ~session.analysis_running
    /\ lock.analysis \in {"idle", "dead"}
    /\ lock' = enter_block(lock, "main", "analysis_block")
    /\ UNCHANGED <<pipe, disk, param, update, stop, entry, files, mdp,
                   transcript, installed, run, obs, outcome, session,
                   workers, analysis>>

\* the writes of the button's block
LockAnalysisWrites ==
    /\ lock.main = "analysis_block"
    /\ session' = [session EXCEPT
           !.analysis_running = TRUE, !.analysis_finished = FALSE,
           !.analysis_progress = 0, !.analysis_logs = <<>>,
           !.error = None]
    /\ lock' = [lock EXCEPT !.main = "analysis_written", !.by = "main"]
    /\ UNCHANGED <<pipe, disk, param, update, stop, entry, files, mdp,
                   transcript, installed, run, obs, outcome, workers,
                   analysis>>

\* the block is left and run_thread started: it waits in run_mmpbsa for
\* the output of the analysis process
LockAnalysisLeave ==
    /\ lock.main = "analysis_written"
    /\ lock' = [leave_block(lock, "main", "idle") EXCEPT
                   !.analysis = "reading"]
    /\ UNCHANGED <<pipe, disk, param, update, stop, entry, files, mdp,
                   transcript, installed, run, obs, outcome, session,
                   workers, analysis>>

\* the percentages run_mmpbsa passes to progress_cb
AnalysisPcts == {50, 150}

\* run_mmpbsa has read a line and passes it to log_cb, which puts it on
\* the analysis queue and asks for no lock
LockAnalysisLog ==
    /\ lock.analysis = "reading"
    /\ Len(session.analysis_log_queue) < MaxLines
    /\ session' = [session EXCEPT
                       !.analysis_log_queue = Append(@, LogText)]
    /\ lock' = [lock EXCEPT !.by = "analysis"]
    /\ UNCHANGED <<pipe, disk, param, update, stop, entry, files, mdp,
                   transcript, installed, run, obs, outcome, workers,
                   analysis>>

\* run_mmpbsa reports progress: progress_cb enters its block once the
\* lock is free
LockProgressEnter ==
    /\ lock.analysis = "reading"
    /\ lock.owner = "none"
    /\ lock' = enter_block(lock, "analysis", "progress_block")
    /\ UNCHANGED <<pipe, disk, param, update, stop, entry, files, mdp,
                   transcript, installed, run, obs, outcome, session,
                   workers, analysis>>

\* the write of progress_cb(pct)
LockProgressWrites(pct) ==
    /\ lock.analysis = "progress_block"
    /\ session' = [session EXCEPT
                       !.analysis_progress = IF pct < 100 THEN pct ELSE 100]
    /\ lock' = [lock EXCEPT !.analysis = "progress_written",
                            !.by = "analysis"]
    /\ UNCHANGED <<pipe, disk, param, update, stop, entry, files, mdp,
                   transcript, installed, run, obs, outcome, workers,
                   analysis>>

\* progress_cb returns: the thread waits for output again
LockProgressLeave ==
    /\ lock.analysis = "progress_written"
    /\ lock' = leave_block(lock, "analysis", "reading")
    /\ UNCHANGED <<pipe, disk, param, update, stop, entry, files, mdp,
                   transcript, installed, run, obs, outcome, session,
                   workers, analysis>>

\* run_mmpbsa returns (ok) or raises: run_thread enters the block of that
\* branch once the lock is free
LockAnalysisEndEnter(ok) ==
    /\ lock.analysis = "reading"
    /\ lock.owner = "none"
    /\ lock' = enter_block(lock, "analysis",
                           IF ok THEN "done_block" ELSE "error_block")
    /\ UNCHANGED <<pipe, disk, param, update, stop, entry, files, mdp,
                   transcript, installed, run, obs, outcome, session,
                   workers, analysis>>

\* the writes of that block
LockAnalysisEndWrites ==
    /\ lock.analysis \in {"done_block", "error_block"}
    /\ session' =
           IF lock.analysis = "done_block"
           THEN [session EXCEPT !.analysis_running = FALSE,
                                !.analysis_finished = TRUE,
                                !.analysis_progress = 100]
           ELSE [session EXCEPT !.error = "RuntimeError",
                                !.analysis_running = FALSE]
    /\ lock' = [lock EXCEPT !.analysis = "end_written", !.by = "analysis"]
    /\ UNCHANGED <<pipe, disk, param, update, stop, entry, files, mdp,
                   transcript, installed, run, obs, outcome, workers,
                   analysis>>

\* the block is left and the thread ends
LockAnalysisEndLeave ==
    /\ lock.analysis = "end_written"
    /\ lock' = leave_block(lock, "analysis", "dead")
    /\ UNCHANGED <<pipe, disk, param, update, stop, entry, files, mdp,
                   transcript, installed, run, obs, outcome, session,
                   workers, analysis>>

\* "Auto-refresh when running": the script sleeps two seconds at the end
\* of a pass
LockSleep ==
    /\ entry = "hold"
    /\ lock.main = "idle"
    /\ session.running \/ session.analysis_running
    /\ lock' = [lock EXCEPT !.main = "sleep", !.by = "main"]
    /\ UNCHANGED <<pipe, disk, param, update, stop, entry, files, mdp,
                   transcript, installed, run, obs, outcome, session,
                   workers, analysis>>

\* the sleep is over and the script runs again
LockWake ==
    /\ lock.main = "sleep"
    /\ lock' = [lock EXCEPT !.main = "idle", !.by = "main"]
    /\ UNCHANGED <<pipe, disk, param, update, stop, entry, files, mdp,
                   transcript, installed, run, obs, outcome, session,
                   workers, analysis>>

\* the page with the lock observed, its Pause, Resume and analysis
\* handlers included, on a prepared directory that an earlier setup
\* has left its structure in
InitHold ==
    /\ entry = "hold"
    /\ files = {"topol.top", "step3_input.gro", "setup.gro"}
    /\ mdp = [f \in AllMdp |-> NoContent]
    /\ transcript = [l \in LogFiles |-> <<>>]
    /\ installed = {"gmx"}
    /\ run = IdleRun
    /\ obs = NoObs
    /\ outcome = NoOutcome
    /\ session = SessionDefaults
    /\ workers = <<>>
    /\ analysis = IdleAnalysis
    /\ stop = IdleStop
    /\ update = IdleUpdate
    /\ disk = NoText
    /\ param = IdleParam
    /\ lock = FreeLock
    /\ pipe = IdlePipe

\* the steps a thread takes inside a `with _state_lock:` block
HoldInside ==
    \/ LockRunWrites
    \/ LockRunLeave
    \/ LockWorkerWrites
    \/ \E w \in 1..MaxWorkers : LockWorkerLeave(w)
    \/ LockPauseWrites
    \/ LockPauseLeave
    \/ LockResumeWrites
    \/ LockResumeLeave
    \/ LockAnalysisWrites
    \/ LockAnalysisLeave
    \/ \E pct \in AnalysisPcts : LockProgressWrites(pct)
    \/ LockProgressLeave
    \/ LockAnalysisEndWrites
    \/ LockAnalysisEndLeave

\* the steps taken outside the blocks, entering one included
HoldOutside ==
    \/ LockAutoDetect
    \/ \E ns \in NsChoices : LockRunEnter(ns)
    \/ \E w \in 1..MaxWorkers : LockWorkerEnter(w)
    \/ LockEndOfPass
    \/ LockPauseCall
    \/ LockPauseEnter
    \/ LockResumeEnter
    \/ LockAnalysisEnter
    \/ LockAnalysisLog
    \/ LockProgressEnter
    \/ \E ok \in BOOLEAN : LockAnalysisEndEnter(ok)
    \/ LockSleep
    \/ LockWake

NextHold == HoldInside \/ HoldOutside

\* a thread inside a block is runnable (the block only assigns and puts
\* on a queue), so the scheduler lets it take its next step
SpecHold == InitHold /\ [][NextHold]_vars /\ WF_vars(HoldInside)

\* the session of the page while one worker's run_md streams the output of
\* the compute process: the callbacks the loop and run_job apply, and the
\* passes of the script
ProgressCallback(line) ==
    /\ entry = "callbacks"
    /\ workers[1].state = "started"
    /\ LET total == workers[1].total_steps
           steps == extract_step(line, total)
       IN  /\ steps # {}
           /\ session' = progress_callback(session,
                                           CHOOSE n \in steps : TRUE, total)
    /\ UNCHANGED <<pipe, disk, param, lock, update, stop, entry, files, mdp,
                   transcript, installed, run, obs, outcome, workers,
                   analysis>>

\* the process exits with code 0: progress_callback(total_steps,
\* total_steps), run_md returns and run_job's completion block runs
CallbackCompleted ==
    /\ entry = "callbacks"
    /\ workers[1].state = "started"
    /\ LET total == workers[1].total_steps
       IN  session' = job_completed(
                          progress_callback(session, total, total),
                          workers[1].stage, 0)
    /\ workers' = <<DeadWorker>>
    /\ UNCHANGED <<pipe, disk, param, lock, update, stop, entry, files, mdp,
                   transcript, installed, run, obs, outcome, analysis>>

\* the process exits with another code: run_md raises and run_job's
\* handler runs
CallbackFailed ==
    /\ entry = "callbacks"
    /\ workers[1].state = "started"
    /\ session' = job_failed(session, "RuntimeError")
    /\ workers' = <<DeadWorker>>
    /\ UNCHANGED <<pipe, disk, param, lock, update, stop, entry, files, mdp,
                   transcript, installed, run, obs, outcome, analysis>>

\* a pass of the script: auto-detection, queue, watchdog
CallbackPass ==
    /\ entry = "callbacks"
    /\ session' = end_of_pass(top_of_pass(session, files, transcript),
                              workers)
    /\ UNCHANGED <<pipe, disk, param, lock, update, stop, entry, files, mdp,
                   transcript, installed, run, obs, outcome, workers,
                   analysis>>

\* Run has been clicked for a stage whose parameter file asks for `total`
\* steps; the directory may hold the outputs of an earlier production run
InitCallbacks ==
    /\ entry = "callbacks"
    /\ \E P \in {{}, ProductionOutputs \cup {"md.log"}},
          S \in SUBSET {"setup.gro"} :
          files = {"topol.top", "step3_input.gro"} \cup P \cup S
    /\ mdp = [f \in AllMdp |-> NoContent]
    /\ transcript = [l \in LogFiles |->
                        IF l = "md.log" /\ l \in files
                        THEN <<LineEntry(FinishedLine)>> ELSE <<>>]
    /\ installed = {"gmx"}
    /\ run = IdleRun
    /\ obs = NoObs
    /\ outcome = NoOutcome
    /\ \E stage \in StageSet, total \in 1..MaxStep :
          /\ ~run_disabled([AutoDetect(SessionDefaults, files) EXCEPT
                                !.current_stage = stage])
          /\ session = [AutoDetect(SessionDefaults, files) EXCEPT
                           !.running = TRUE, !.total_steps = total,
                           !.current_stage = stage]
          /\ workers = <<NewWorker(stage, total, FALSE, FALSE)>>
    /\ analysis = IdleAnalysis
    /\ stop = IdleStop
    /\ update = IdleUpdate
    /\ disk = NoText
    /\ param = IdleParam
    /\ lock = FreeLock
    /\ pipe = IdlePipe

NextCallbacks ==
    \/ \E line \in Lines : ProgressCallback(line)
    \/ CallbackCompleted
    \/ CallbackFailed
    \/ CallbackPass

SpecCallbacks == InitCallbacks /\ [][NextCallbacks]_vars

\* run_md called again and again for one stage of one prepared directory
InitRerun ==
    /\ entry = "rerun"
    /\ files = {"topol.top", "step3_input.gro"}
    /\ mdp = [f \in AllMdp |-> NoContent]
    /\ transcript = [l \in LogFiles |-> <<>>]
    /\ installed = {"gmx"}
    /\ run = IdleRun
    /\ obs = NoObs
    /\ outcome = NoOutcome
    /\ session = SessionDefaults
    /\ workers = <<>>
    /\ analysis = IdleAnalysis
    /\ stop = IdleStop
    /\ update = IdleUpdate
    /\ disk = NoText
    /\ param = IdleParam
    /\ lock = FreeLock
    /\ pipe = IdlePipe

NextRerun ==
    \/ NextStream
    \/ \E tot \in ReqTotals : Rerun(tot)

SpecRerun == InitRerun /\ [][NextRerun]_vars

\* update_mdp_nsteps called on its own: two parameter files, each with or
\* without an nsteps line and with a dt line of any kind
StepsFiles == {"md.mdp", "equil.mdp"}
StepsContents == {[nsteps |-> n, dt |-> d] : n \in {{}, {MaxStep}},
                                              d \in StepsDt}

InitSteps ==
    /\ entry = "update_mdp_nsteps"
    /\ files \in {{"md.mdp"}, StepsFiles}
    /\ \E c \in StepsContents :
          mdp = [f \in AllMdp |-> IF f \in files THEN c ELSE NoContent]
    /\ transcript = [l \in LogFiles |-> <<>>]
    /\ installed = {}
    /\ run = IdleRun
    /\ obs = NoObs
    /\ outcome = NoOutcome
    /\ session = SessionDefaults
    /\ workers = <<>>
    /\ analysis = IdleAnalysis
    /\ stop = IdleStop
    /\ update = IdleUpdate
    /\ disk = NoText
    /\ param = IdleParam
    /\ lock = FreeLock
    /\ pipe = IdlePipe

NextSteps ==
    \E mdp_path \in StepsFiles, ns \in StepsNs : UpdateMdpNsteps(mdp_path, ns)

SpecSteps == InitSteps /\ [][NextSteps]_vars

\* update_mdp_parameter then read_mdp_parameter called on their own, on a
\* file of up to MaxFileLines lines: assignments of dt (one indented, in
\* capitals, with an inline comment), an nsteps assignment, a comment, a
\* blank line; ended by "\n" or "\r\n", the last line ended or not
ParamLines ==
    {<<"d", "t", " ", "=", " ", "1">>,
     <<" ", "D", "T", "=", "2", " ", ";", "c">>,
     <<";", "d", "t", "=", "1">>,
     <<>>,
     <<"n", "s", "t", "e", "p", "s", " ", "=", " ", "5">>}
Eols == {<<"\n">>, <<"\r", "\n">>}
ParamNames == {<<"d", "t">>, <<"D", "T">>, <<"n", "s", "t", "e", "p", "s">>}
ParamValues ==
    {<<"1">>, <<"2", ";", "1">>, <<" ", "1">>, <<"1", " ", "2">>, <<>>}

\* the bytes of a file with lines ls, each ended by eol, the last one only
\* when `final`
FileBytes(ls, eol, final) ==
    writelines([i \in 1..Len(ls) |->
                   IF i < Len(ls) \/ final THEN ls[i] \o eol ELSE ls[i]])
ParamTexts ==
    {FileBytes(ls, eol, final) :
        ls \in UNION {[1..k -> ParamLines] : k \in 0..MaxFileLines},
        eol \in Eols, final \in BOOLEAN}

InitUpdate(e) ==
    /\ entry = e
    /\ files \in {{}, {ParamFile}}
    /\ \E t \in ParamTexts :
          disk = [NoText EXCEPT ![ParamFile] =
                     IF ParamFile \in files THEN t ELSE <<>>]
    /\ mdp = [f \in AllMdp |-> NoContent]
    /\ transcript = [l \in LogFiles |-> <<>>]
    /\ installed = {}
    /\ run = IdleRun
    /\ obs = NoObs
    /\ outcome = NoOutcome
    /\ session = SessionDefaults
    /\ workers = <<>>
    /\ analysis = IdleAnalysis
    /\ stop = IdleStop
    /\ update = IdleUpdate
    /\ param = IdleParam
    /\ lock = FreeLock
    /\ pipe = IdlePipe

InitParams == InitUpdate("update_mdp_parameter")

NextParams ==
    \/ \E name \in ParamNames, value \in ParamValues :
          UpdateMdpParameter(name, value, TRUE, TRUE)
    \/ ReadMdpParameter

SpecParams == InitParams /\ [][NextParams]_vars

\* the same call with and without a backup asked for, the copy succeeding
\* or failing
InitBackup == InitUpdate("backup")

NextBackup ==
    \/ \E value \in {<<"1">>, <<"2", ";", "1">>},
          backup \in BOOLEAN, copies \in BOOLEAN :
          UpdateMdpParameter(<<"d", "t">>, value, backup, copies)
    \/ ReadMdpParameter

SpecBackup == InitBackup /\ [][NextBackup]_vars

\* index files of up to MaxGroups groups
GroupNames ==
    {<<"P", "r", "o", "t", "e", "i", "n">>,
     <<"P", "r", "o", "t", "e", "i", "n", "-", "H">>,
     <<"P", "r", "o", "t", "e", "i", "n", "_", "L", "I", "G">>,
     <<"S", "O", "L">>,
     <<"U", "N", "K">>,
     <<"U", "N", "K", "_", "C", "L", "A">>}
\* "[ name ]" followed by a line of atom numbers
GroupLines(name) ==
    <<<<"[", " ">> \o name \o <<" ", "]">>, <<"1", " ", "2">>>>
IndexText(names) ==
    FileBytes(IF names = <<>> THEN <<>>
              ELSE [i \in 1..(2 * Len(names)) |->
                       GroupLines(names[(i + 1) \div 2])[2 - (i % 2)]],
              <<"\n">>, TRUE)
GroupSeqs == UNION {[1..k -> GroupNames] : k \in 0..MaxGroups}
IndexTexts == [names \in GroupSeqs |-> IndexText(names)]

\* run_mmpbsa called on its own with every required file present, with or
\* without an index file, on any such index file (InitGroups) or with any
\* settings, frame count, processor count and n_cores (InitAnalysis)
InitCall(e, indexes) ==
    /\ entry = e
    /\ files \in {AnalysisRequired, AnalysisFiles}
    /\ \E names \in indexes :
          disk = [NoText EXCEPT !["index.ndx"] =
                     IF "index.ndx" \in files THEN IndexTexts[names]
                     ELSE <<>>]
    /\ mdp = [f \in AllMdp |-> NoContent]
    /\ transcript = [l \in LogFiles |-> <<>>]
    /\ installed \in {{"gmx_MMPBSA"}, {"gmx", "gmx_MMPBSA"}}
    /\ run = IdleRun
    /\ obs = NoObs
    /\ outcome = NoOutcome
    /\ session = SessionDefaults
    /\ workers = <<>>
    /\ analysis = IdleAnalysis
    /\ stop = IdleStop
    /\ update = IdleUpdate
    /\ param = IdleParam
    /\ lock = FreeLock
    /\ pipe = IdlePipe

NextAnalysis ==
    \/ \E n_cores \in CoreArgs : AnalysisCall(n_cores)
    \/ \E counted \in FrameCounts, start \in StartFrames,
          endframe \in EndFrames, interval \in Intervals,
          cpu_count \in CpuCounts :
          AnalysisFrames(counted, start, endframe, interval, cpu_count)
    \/ AnalysisGroups
    \/ AnalysisToolCheck
    \/ AnalysisSpawn
    \/ \E rc \in MdrunCodes : AnalysisExit(rc)

InitAnalysis ==
    InitCall("mmpbsa", {<<<<"P", "r", "o", "t", "e", "i", "n">>,
                          <<"U", "N", "K">>>>})
InitGroups == InitCall("groups", GroupSeqs)

\* run_mmpbsa with the output of the analysis process read line by line
InitProgress ==
    InitCall("progress", {<<<<"P", "r", "o", "t", "e", "i", "n">>,
                            <<"U", "N", "K">>>>})
NextProgress ==
    \/ NextAnalysis
    \/ \E line \in AnalysisLines : AnalysisReadLine(line)

SpecAnalysis == InitAnalysis /\ [][NextAnalysis]_vars
SpecProgress == InitProgress /\ [][NextProgress]_vars
SpecGroups == InitGroups /\ [][NextAnalysis]_vars

----------------------------------------------------------------------------
(* Properties *)

EngineNames == {"gmx", "gmx_mpi", "gmx_d", "gromacs"}
EngineResolves == installed \cap EngineNames # {}

\* the stage has its topology and at least one acceptable input structure
InputsPresent(dir, stage) ==
    /\ "topol.top" \in dir
    /\ \/ stage = "setup" /\ "step3_input.gro" \in dir
       \/ stage = "equilibration"
            /\ {"setup.gro", "step3_input.gro"} \cap dir # {}
       \/ stage = "production"
            /\ {"equil.gro", "setup.gro", "step3_input.gro"} \cap dir # {}

Spawned(name) == \E i \in 1..Len(obs.spawned) : obs.spawned[i] = name
CurrentLog == transcript[LogFile(run.output_prefix)]

\* C1: a worker's call of run on a directory with valid inputs and the engine
\* installed is accepted and reaches the preprocessing command; it does not
\* fail before validation starts.
C1_WorkerCallAccepted ==
    (/\ run.pc = "done"
     /\ run.caller # 0
     /\ InputsPresent(files, run.stage)
     /\ EngineResolves)
    => (outcome.err # "TypeError" /\ Spawned("grompp"))

\* C2: the compute process is spawned only after the preprocessing command of
\* the same run exited with code 0; a non-zero preprocessing exit ends the run
\* in failure, with no compute process spawned and no onPid call.
C2_ComputeOnlyAfterPreprocess ==
    /\ Spawned("mdrun")
         => (obs.spawned = <<"grompp", "mdrun">> /\ run.grompp_rc = {0})
    /\ (\E rc \in run.grompp_rc : rc # 0)
         => /\ run.pc = "done"
            /\ outcome.kind = "raised"
            /\ ~Spawned("mdrun")
            /\ obs.onPid = <<>>

C2_Witness ==
    /\ run.pc = "done"
    /\ run.grompp_rc = {1}
    /\ outcome.kind = "raised"
    /\ obs.spawned = <<"grompp">>

\* C3: when the compute process exits with code 0, the last onProgress call
\* is (totalSteps, totalSteps) for the step count requested for the run, and
\* run returns 0.
C3_FinalProgressIsRequestedTotal ==
    (run.pc = "done" /\ run.returncode = {0})
    => /\ outcome = Returned(0)
       /\ obs.onProgress # <<>>
       /\ Last(obs.onProgress) = <<run.req_total, run.req_total>>

\* C4: when the compute process exits with a non-zero code c, run raises an
\* error carrying c and returns no value, and the failed footer with c is in
\* the transcript when the error reaches the caller.
C4_FailureRaisesAfterFooter ==
    \A c \in run.returncode :
        (run.pc = "done" /\ c # 0)
        => /\ outcome.kind = "raised"
           /\ outcome.err = "EngineRuntime"
           /\ outcome.code = c
           /\ \E i \in 1..Len(CurrentLog) :
                 CurrentLog[i] = Entry("footer_failed", c, NoLine)

C4_Witness ==
    /\ run.pc = "done"
    /\ run.returncode = {-15}
    /\ outcome = Raised("EngineRuntime", -15)
    /\ run.nlines > 0

\* C5 as claimed: engine availability is the first validation; with no engine
\* executable the run fails with engine-not-found, whatever the input files.
C5_EngineCheckedFirst ==
    (run.pc = "done" /\ outcome.err # "TypeError" /\ ~EngineResolves)
    => outcome = Raised("EngineNotFound", 0)

\* C5 amended: with no engine executable the run fails with engine-not-found
\* when the stage's inputs are present and with missing-input when they are
\* not; either way before the parameter file is resolved or a process spawned.
C5_EngineCheckedAfterInputs ==
    (run.pc = "done" /\ outcome.err # "TypeError" /\ ~EngineResolves)
    => /\ outcome = IF InputsPresent(files, run.stage)
                    THEN Raised("EngineNotFound", 0)
                    ELSE Raised("MissingInput", 0)
       /\ obs.spawned = <<>>
       /\ run.mdp_file = None
       /\ \A l \in LogFiles : transcript[l] = <<>>

C5_Witness ==
    /\ run.pc = "done"
    /\ ~EngineResolves
    /\ InputsPresent(files, run.stage)
    /\ outcome = Raised("EngineNotFound", 0)

\* C6: a validation failure of run or runAnalysis (missing inputs, engine not
\* found, analysis tool not found) reaches the caller before any engine or
\* analysis-tool process was spawned by the call.
C6_ValidationFailsBeforeSpawn ==
    (outcome.kind = "raised"
     /\ outcome.err \in {"MissingInput", "EngineNotFound", "MissingFiles",
                         "ToolNotFound"})
    => obs.spawned = <<>>

\* no acceptable input structure of the stage is in the directory
LacksStructure(dir, stage) ==
    IF stage = "setup" THEN "step3_input.gro" \notin dir
    ELSE IF stage = "equilibration"
    THEN {"setup.gro", "step3_input.gro"} \cap dir = {}
    ELSE {"equil.gro", "setup.gro", "step3_input.gro"} \cap dir = {}

\* C7: resolving a stage, through run's validation or through the Run
\* action's validation, on a directory without any acceptable input structure
\* fails with missing-input and writes nothing: no parameter file, no backup,
\* no transcript.
C7_MissingInputWritesNothing ==
    [][/\ (Validate /\ LacksStructure(files, run.stage))
            => /\ outcome' = Raised("MissingInput", 0)
               /\ files' = files /\ mdp' = mdp /\ transcript' = transcript
       /\ ((\E ns \in NsChoices : RunAction(ns))
             /\ LacksStructure(files, session.current_stage))
            => /\ workers' = workers
               /\ files' = files /\ mdp' = mdp /\ transcript' = transcript
      ]_vars

\* the structure expected for a stage and a directory, by priority
C8_Expected(dir, stage) ==
    CASE stage = "setup" -> "step3_input.gro"
      [] stage = "equilibration" ->
            IF "setup.gro" \in dir THEN "setup.gro" ELSE "step3_input.gro"
      [] stage = "production" ->
            IF "equil.gro" \in dir THEN "equil.gro"
            ELSE IF "setup.gro" \in dir THEN "setup.gro"
            ELSE "step3_input.gro"

C8_Prefix(stage) ==
    CASE stage = "setup" -> "setup"
      [] stage = "equilibration" -> "equil"
      [] stage = "production" -> "md"

\* C8: once a run has resolved its stage, the input structure is the initial
\* structure for setup, the setup output else the initial structure for
\* equilibration, the equilibration output else the setup output else the
\* initial structure for production; the selected file exists; the output
\* prefix is setup, equil, md; a run whose stage has no acceptable structure
\* fails with missing-input.
C8_InputPriority ==
    /\ run.pc \in {"grompp_start", "grompp", "mdrun_start", "stream"}
         => /\ run.input_structure = C8_Expected(files, run.stage)
            /\ run.input_structure \in files
            /\ run.output_prefix = C8_Prefix(run.stage)
    /\ (run.pc = "done" /\ run.caller = 0 /\ LacksStructure(files, run.stage))
         => outcome = Raised("MissingInput", 0)

C8_Witness ==
    /\ run.pc = "stream"
    /\ run.stage = "production"
    /\ {"equil.gro", "setup.gro", "step3_input.gro"} \subseteq files
    /\ run.input_structure = "equil.gro"
    /\ run.output_prefix = "md"

\* the candidate names of a stage, in order, and its default file
C9_Candidates(stage) ==
    CASE stage = "setup" ->
            <<"step4_0_minimization.mdp", "step4.0_minimization.mdp",
              "minim.mdp", "em.mdp">>
      [] stage = "equilibration" ->
            <<"step4.1_equilibration.mdp", "step4_1_equilibration.mdp",
              "step4_equilibration.mdp", "equil.mdp", "nvt.mdp">>
      [] stage = "production" ->
            <<"step5_production.mdp", "step5.0_production.mdp",
              "md.mdp", "prod.mdp">>

C9_Default(stage) ==
    CASE stage = "setup" -> "minim.mdp"
      [] stage = "equilibration" -> "equil.mdp"
      [] stage = "production" -> "md.mdp"

\* C9: either resolver returns the first candidate of the stage that exists
\* and writes nothing; if none exists it writes the stage's default document
\* and returns that file; find_mdp_file and get_mdp_file return the same file
\* on the same stage and directory.
C9_FirstCandidateOrDefault ==
    [][(run.pc = "idle" /\ run'.pc \in {"found", "got"}) =>
        LET st == run'.stage
            c == C9_Candidates(st)
            present == {i \in 1..Len(c) : c[i] \in files}
        IN  /\ IF present # {}
               THEN /\ \E i \in present :
                         /\ \A j \in present : i <= j
                         /\ run'.mdp_file = c[i]
                    /\ files' = files
                    /\ mdp' = mdp
               ELSE /\ run'.mdp_file = C9_Default(st)
                    /\ files' = files \cup {C9_Default(st)}
                    /\ mdp'[C9_Default(st)].nsteps # {}
            /\ find_mdp_file(files, st).file = get_mdp_file(files, st).file
      ]_vars

C9_Witness ==
    /\ run.pc = "got"
    /\ run.stage = "equilibration"
    /\ "step4.1_equilibration.mdp" \notin files
    /\ {"step4_1_equilibration.mdp", "equil.mdp"} \subseteq files
    /\ run.mdp_file = "step4_1_equilibration.mdp"

\* C10: a run started with the resume flag on a directory holding the run
\* description of its stage spawns the compute process without running the
\* preprocessing command.
C10_ResumeSkipsPreprocessing ==
    (/\ run.pc = "done"
     /\ run.req_resume
     /\ TprFile(output_prefix_of(run.stage)) \in files
     /\ InputsPresent(files, run.stage)
     /\ EngineResolves)
    => (Spawned("mdrun") /\ ~Spawned("grompp"))

\* C11: stop_md called with a falsy pid (None or 0) returns true and sends
\* no signal.
C11_FalsyPidReturnsTrue ==
    (stop.pc = "done" /\ falsy(stop.pid))
    => (stop.result = TRUE /\ stop.signals = <<>>)

\* C12: stop_md called with the pid of a process that does not exist returns
\* true and sends neither the termination nor the kill signal.
C12_GoneProcessReturnsTrue ==
    (stop.pc = "done" /\ ~falsy(stop.pid) /\ stop.gone_at_call)
    => (stop.result = TRUE /\ stop.signals = <<>>)

C12_Witness ==
    /\ stop.pc = "done"
    /\ stop.pid = {1}
    /\ stop.gone_at_call
    /\ stop.result = TRUE

\* C13: the kill signal is sent only after the termination signal and after
\* every poll up to the timeout found the process alive; a call in progress
\* can always take its next step; the call returns true exactly when it found
\* the process gone, false otherwise (permission failures included).
C13_KillOnlyAfterTimeout ==
    /\ (\E i \in 1..Len(stop.signals) : stop.signals[i] = "SIGKILL")
         => /\ stop.signals = <<"SIGTERM", "SIGKILL">>
            /\ stop.polls = stop.timeout
    /\ stop.pc \in {"probe", "term", "poll", "verify"} => ENABLED StopStep
    /\ stop.pc = "done"
         => (stop.result = TRUE <=> (~falsy(stop.pid) /\ stop.proc = "gone"))

C13_Witness ==
    /\ stop.pc = "done"
    /\ stop.signals = <<"SIGTERM", "SIGKILL">>
    /\ stop.polls = MaxPolls
    /\ stop.result = TRUE

LiveWorkers(ws) == {w \in 1..Len(ws) : ws[w].state # "dead"}

\* C14: when the run_md call of a worker raises, the worker stores the
\* message in the error field, clears running and paused, sets md_pid to
\* None and returns: its thread ends.
C14_WorkerCatchesEveryError ==
    [][\A w \in 1..Len(workers) :
          (/\ Len(workers') = Len(workers)
           /\ workers[w].state # "dead"
           /\ workers'[w].state = "dead"
           /\ outcome'.kind = "raised")
          => /\ session'.error = outcome'.err
             /\ session'.running = FALSE
             /\ session'.paused = FALSE
             /\ session'.md_pid = 0
             /\ workers'[w] = DeadWorker
      ]_vars

C14_Witness ==
    /\ run.pc = "done"
    /\ run.caller # 0
    /\ outcome.kind = "raised"
    /\ session.error = outcome.err
    /\ ~session.running
    /\ workers[run.caller] = DeadWorker

\* C15: at most one worker thread started by the session is alive at any
\* time.
C15_AtMostOneLiveWorker == Cardinality(LiveWorkers(workers)) <= 1

\* C16: Run or Resume starts a worker for equilibration or production only
\* when setup_completed is true.
C16_LaterStagesNeedSetup ==
    [][Len(workers') > Len(workers) =>
         (workers'[Len(workers')].stage \in {"equilibration", "production"}
            => (session.setup_completed /\ session'.setup_completed))
      ]_vars

C16_Witness ==
    \E w \in 1..Len(workers) :
        /\ workers[w].state = "started"
        /\ workers[w].stage = "production"
        /\ session.setup_completed

\* C17: the marker __SETUP_COMPLETED__ is put on the log stream only by a
\* setup run whose compute process has exited with code 0.
C17_MarkerOnlyAfterSetupSuccess ==
    \A i \in 1..Len(obs.onLog) :
        obs.onLog[i] = Sentinel
        => (run.stage = "setup" /\ run.returncode = {0})

\* C18: no entry of the visible logs is the marker, and a pass that takes a
\* marker from the queue leaves setup_completed true.
C18_MarkerSuppressedAndActedOn ==
    /\ [](\A i \in 1..Len(session.logs) :
              strip(session.logs[i]) # Sentinel)
    /\ [][((\E i \in 1..Len(session.log_queue) :
                strip(session.log_queue[i]) = Sentinel)
            /\ session'.log_queue = <<>>)
          => session'.setup_completed]_vars

C18_Witness ==
    /\ session.setup_completed
    /\ "setup.gro" \notin files
    /\ session.log_queue = <<>>
    /\ Len(session.logs) = 2

\* the output lines run_md has read, in order
StreamLines ==
    SelectSeq(transcript[LogFile(run.output_prefix)],
              LAMBDA e : e.t = "line")

\* C19: two consecutive output lines reporting the same step N produce
\* exactly one onProgress call for N, whatever N and wherever the pair is.
C19_SameStepReportedOnce ==
    (run.pc \in {"stream", "done"} /\ run.output_prefix # None)
    => \A i \in 1..(Len(run.reported) - 1) :
          LET a == StreamLines[i].line
              b == StreamLines[i + 1].line
          IN  (a.kind = "step" /\ a = b)
              => ((run.reported[i] = {a.n}) # (run.reported[i + 1] = {a.n}))

\* the timestep in fs the file gives, as the fraction num/den: dt (ps) times
\* 1000, or 2 fs when the file has no dt or its text is no number
C20_Timestep(content) ==
    IF content.dt = {} THEN DecimalText(DefaultTimestepFs, 1)
    ELSE LET dt_str == CHOOSE t \in content.dt : TRUE
         IN  IF dt_str.den = 0 THEN DecimalText(DefaultTimestepFs, 1)
             ELSE DecimalText(1000 * dt_str.num, dt_str.den)

\* floor(d * 1,000,000 / t) for the duration d = ns.num/ns.den ns (a decimal
\* of at most six places) and the timestep t = t.num/t.den fs, in
\* whole-number arithmetic: floor(fs * t.den / t.num), fs the duration in fs
C20_Floor(ns, t) ==
    LET fs == ns.num * (FsPerNs \div ns.den)
    IN  (fs \div t.num) * t.den + ((fs % t.num) * t.den) \div t.num

\* C20: for a duration d > 0 ns, the nsteps that update_mdp_nsteps writes
\* to the file (and returns) is floor(d * 1,000,000 / t), t the file's
\* timestep in fs.
C20_NstepsIsFloor ==
    (update.pc = "done" /\ ~update.raised)
    => LET expected == C20_Floor(update.ns,
                                 C20_Timestep(mdp[update.mdp_path]))
       IN  /\ mdp[update.mdp_path].nsteps = {expected}
           /\ update.returned = {expected}

\* a finished update_mdp_parameter / read_mdp_parameter round trip
C21_RoundTrip == param.pc = "done" /\ ~param.raised

\* the decoded lines of the file before the update, and of the file now
C21_Before == readlines(decode(param.before))
C21_After == readlines(decode(disk[ParamFile]))

\* C21 as stated: after update_mdp_parameter(path, K, V),
\* read_mdp_parameter(path, K) returns exactly V, whatever V is
C21_ReadReturnsWritten ==
    C21_RoundTrip => param.read = {param.value}

\* a value the file format can hold: not empty, no ";", no line break, no
\* whitespace at either end
C21_PlainValue(v) ==
    /\ v # <<>>
    /\ stripped(v) = v
    /\ \A i \in 1..Len(v) : v[i] \notin {";", "\n", "\r"}

\* C21 amended: after update_mdp_parameter(path, K, V) with V a plain value
\* (not empty, without ";", line break or surrounding whitespace),
\* read_mdp_parameter(path, K) returns exactly V, whether K was absent, or
\* present once or several times, with or without an inline comment
C21_ReadReturnsPlainValue ==
    (C21_RoundTrip /\ C21_PlainValue(param.value))
        => param.read = {param.value}

\* a plain value was written over two assignments of the name, one with an
\* inline comment, and read back
C21_Witness ==
    /\ C21_RoundTrip
    /\ C21_PlainValue(param.value)
    /\ Len(param.value) > 1
    /\ Cardinality({i \in 1..Len(C21_Before) :
                       is_target(C21_Before[i], param.name)}) = 2
    /\ \E i \in 1..Len(C21_Before) :
          /\ is_target(C21_Before[i], param.name)
          /\ inline_comment(C21_Before[i]) # <<>>
    /\ param.read = {param.value}

\* the lines on disk, split at "\n" only: each line with the bytes that
\* end it
C22_RawBefore == readlines(param.before)
C22_RawAfter == readlines(disk[ParamFile])

\* lines B are found unchanged at their positions in lines A, but for the
\* assignments of the name; without such an assignment A is B followed
\* by blank lines, comments and the new assignment
C22_OthersKept(B, A) ==
    /\ Len(A) >= Len(B)
    /\ \A i \in 1..Len(B) :
          ~is_target(B[i], param.name) => A[i] = B[i]
    /\ \A i \in (Len(B) + 1)..Len(A) :
          is_comment_or_blank(A[i]) \/ is_target(A[i], param.name)
    /\ (\E i \in 1..Len(B) : is_target(B[i], param.name))
          => Len(A) = Len(B)

C22_Ended(line) ==
    IF line # <<>> /\ line[Len(line)] = "\n" THEN line
    ELSE line \o <<"\n">>

C23_AllRolesCheckedFirst ==
    (entry = "run_mmpbsa" /\ analysis.pc # "idle"
        /\ AnalysisFiles \ files # {})
        => /\ obs.spawned = <<>>
           /\ analysis.pc = "done"
           /\ outcome = Raised("MissingFiles", 0)
           /\ analysis.missing = AnalysisFiles \ files

\* the worker count was passed to the analysis command
C24_Passed ==
    \E i \in 1..Len(obs.spawned) : obs.spawned[i] = "gmx_MMPBSA"

\* k is max(1, floor((end - start + 1) / interval)) for the call's
\* settings, end being the endframe setting or else the frame count
C24_IsFrameCount(k) ==
    LET end == IF analysis.endframe \in {{}, {0}} THEN analysis.n_frames
               ELSE CHOOSE e \in analysis.endframe : TRUE
        x == end - analysis.start + 1
        d == analysis.interval
    IN  IF x >= d THEN k * d <= x /\ x < (k + 1) * d ELSE k = 1

\* C24: the worker count passed to the analysis command never exceeds
\* the effective frame count; when the caller gives none it is the
\* processor count minus one, capped to the frame count and at least 1;
\* a count the caller gives above the frame count is reduced to it
C24_WorkersWithinFrames ==
    C24_Passed =>
        LET k == analysis.effective_frames
            c == analysis.cpu_count - 1
        IN  /\ C24_IsFrameCount(k)
            /\ analysis.n_cores <= k
            /\ analysis.asked = {}
                  => analysis.n_cores =
                       IF c >= k THEN k ELSE IF c >= 1 THEN c ELSE 1
            /\ \A a \in analysis.asked :
                  analysis.n_cores = IF a > k THEN k ELSE a

\* the caller asked for more workers than the 2 frames to analyse
C24_Witness ==
    /\ C24_Passed
    /\ analysis.effective_frames = 2
    /\ analysis.interval = 2
    /\ \E a \in analysis.asked : a > 2
    /\ analysis.n_cores = 2

\* the group names that hold "protein" without "-h", and those that hold
\* a ligand keyword and no ion or water keyword
C25_Receptors ==
    {<<"P", "r", "o", "t", "e", "i", "n">>,
     <<"P", "r", "o", "t", "e", "i", "n", "_", "L", "I", "G">>}
C25_Ligands ==
    {<<"P", "r", "o", "t", "e", "i", "n", "_", "L", "I", "G">>, <<"U", "N", "K">>}

\* the number of the first of `names` that is in S, else `default`
C25_First(names, S, default) ==
    IF \E i \in 1..Len(names) : names[i] \in S
    THEN CHOOSE i \in 1..Len(names) :
            names[i] \in S /\ \A j \in 1..(i - 1) : names[j] \notin S
    ELSE default

\* C25: group detection numbers the headers of the index file from 1 and
\* returns the first receptor header and the first ligand header, 1 and
\* 13 for a role without header, and (1, 13) without index file
C25_GroupsDetected ==
    analysis.pc \in {"tool_check", "spawn", "stream"} =>
        IF "index.ndx" \notin files THEN analysis.groups = <<1, 13>>
        ELSE \A names \in GroupSeqs :
                disk["index.ndx"] = IndexTexts[names] =>
                    analysis.groups = <<C25_First(names, C25_Receptors, 1),
                                        C25_First(names, C25_Ligands, 13)>>

\* the groups of an index file with the headers Protein, Protein_LIG were
\* detected: receptor 1, ligand 2
C25_Witness ==
    /\ analysis.pc = "tool_check"
    /\ "index.ndx" \in files
    /\ disk["index.ndx"] =
          IndexTexts[<<<<"P", "r", "o", "t", "e", "i", "n">>,
                       <<"P", "r", "o", "t", "e", "i", "n", "_", "L", "I", "G">>>>]
    /\ analysis.groups = <<1, 2>>

\* C26 as stated: a transcript is only ever appended to: no step of a run,
\* the first or a later one of the same stage in the same directory,
\* removes or replaces what the file already holds
C26_TranscriptOnlyAppended ==
    [][\A l \in LogFiles :
          /\ Len(transcript'[l]) >= Len(transcript[l])
          /\ SubSeq(transcript'[l], 1, Len(transcript[l])) = transcript[l]
      ]_vars

\* C27 as stated: every step that changes one of the shared session
\* fields is taken by the thread that holds _state_lock
C27_WritesHoldLock ==
    [][(\E f \in SharedFields : session'[f] # session[f])
          => (lock.owner # "none" /\ lock.owner = lock'.by)]_vars

\* C28 as stated: every value a worker puts on the log queue or on the
\* analysis log queue is eventually taken off by a pass of the script (and
\* shown in logs or analysis_logs, the marker excepted): a queue that holds
\* values is eventually empty
C28_QueuesEventuallyDrained ==
    /\ (session.log_queue # <<>>) ~> (session.log_queue = <<>>)
    /\ (session.analysis_log_queue # <<>>)
          ~> (session.analysis_log_queue = <<>>
                /\ session.analysis_logs # <<>>)

\* s is t or a beginning of t
C29_Begins(s, t) == Len(s) <= Len(t) /\ s = SubSeq(t, 1, Len(s))

C30_ProgressStepsDiffer ==
    \A i \in 1..(Len(obs.onProgress) - 1) :
        obs.onProgress[i][1] # obs.onProgress[i + 1][1]

\* the values of kind k that log_callback received
C31_Logged(k) == SelectSeq(obs.onLog, LAMBDA item : item.kind = k)

\* C31: a line matching an error pattern adds one warning to the log and
\* nothing else: every line read is logged, the loop goes on reading after
\* it, and the call returns 0 when the process exits with 0 and raises
\* when it exits with another code, whatever lines were read.
C31_MarkerOnlyWarns ==
    /\ []((run.pc \in {"stream", "done"} /\ run.output_prefix # None)
            => /\ Len(C31_Logged("line")) = Len(StreamLines)
               /\ Len(C31_Logged("warning"))
                    = Len(SelectSeq(StreamLines,
                                    LAMBDA e : e.line = MarkerLine)))
    /\ []((run.pc = "done" /\ run.returncode # {})
            => \A rc \in run.returncode :
                  outcome = IF rc = 0 THEN Returned(0)
                            ELSE Raised("EngineRuntime", rc))
    /\ [][(run.pc = "stream" /\ run'.nlines > run.nlines)
            => run'.pc = "stream"]_vars

C31_Witness ==
    /\ run.pc = "done"
    /\ outcome = Returned(0)
    /\ StreamLines = <<LineEntry(MarkerLine), LineEntry(PlainLine)>>
    /\ Len(C31_Logged("warning")) = 1

\* the state shows running while the thread started last has ended
C32_Stale == session.running /\ workers # <<>> /\ ~md_thread_alive(workers)

\* C32: when the state shows running while md_thread has ended, a pass of
\* the script that reaches its end leaves running false and finished true;
\* with passes taken again and again, running does not stay true.
C32_WatchdogReconciles ==
    /\ [][(C32_Stale /\ session'.log_queue = <<>>)
            => (~session'.running /\ session'.finished)]_vars
    /\ C32_Stale ~> ~session.running

C32_Witness ==
    /\ workers # <<>>
    /\ ~md_thread_alive(workers)
    /\ ~session.running
    /\ session.finished
    /\ session.progress = 100

\* C33: the percentages run_mmpbsa delivers to its progress callback never
\* decrease and lie in 0..100, whatever lines the process prints, the final
\* 100 of a successful run included.
C33_ProgressNeverRegresses ==
    /\ \A i \in 1..Len(analysis.progress) : analysis.progress[i] \in 0..100
    /\ \A i \in 1..(Len(analysis.progress) - 1) :
          analysis.progress[i] <= analysis.progress[i + 1]
    /\ (analysis.pc = "done" /\ outcome = Returned(0))
          => /\ analysis.progress # <<>>
             /\ analysis.progress[Len(analysis.progress)] = 100

C33_Witness ==
    /\ analysis.pc = "done"
    /\ outcome = Returned(0)
    /\ analysis.nread = 3
    /\ analysis.progress = <<50, 60, 100, 100>>

\* C34: an update with backup set copies the file before rewriting it: the
\* backup then holds the bytes the file had before the update; an update
\* with backup unset makes no backup file; and the file is rewritten
\* whether or not the copy succeeded.
C34_BackupHoldsOldContent ==
    (param.pc \in {"updated", "done"} /\ ~param.raised)
    => /\ param.copied
            => /\ BackupFile(ParamFile) \in files
               /\ disk[BackupFile(ParamFile)] = param.before
       /\ ~param.backup => BackupFile(ParamFile) \notin files
       /\ disk[ParamFile] = writelines(new_lines(
              readlines(decode(param.before)), param.name, param.value))

C34_Witness ==
    /\ param.pc = "updated"
    /\ param.copied
    /\ param.before # <<>>
    /\ disk[BackupFile(ParamFile)] = param.before
    /\ disk[ParamFile] # param.before

\* C35 as stated: once Pause has left paused true and running false, paused
\* stays true until Resume or Run starts a run: no handler of a worker
\* clears it, so Resume stays enabled.
C35_PausedUntilResumeOrRun ==
    [][(session.paused /\ ~session.running /\ ~session'.paused)
         => session'.running]_vars

\* C36 as stated: the handler of a superseded worker (one started before
\* the worker started last) leaves the process id, the running flag and
\* the error of the newer run as they are.
C36_SupersededWorkerLeavesNewerRun ==
    [][(\E w \in 1..(Len(workers) - 1) :
            /\ workers[w].state # "dead"
            /\ workers'[w].state = "dead"
            /\ workers[Len(workers)].state # "dead")
         => /\ session'.running = session.running
            /\ session'.error = session.error
            /\ session'.md_pid = session.md_pid]_vars

\* C37 as stated: in every state of the session, running and finished are
\* not both true.
C37_NotRunningAndFinished == ~(session.running /\ session.finished)

\* C38 as stated: no worker is started for the setup stage with GPU
\* acceleration asked for, by Run or by Resume, whatever the run mode.
C38_SetupNeverOnGpu ==
    \A w \in 1..Len(workers) :
        (workers[w].state # "dead" /\ workers[w].stage = "setup")
            => ~workers[w].use_gpu

C40_ProgressWithinRange == session.progress \in 0..100

====
